---------------------------- MODULE Spec2Model ----------------------------
(***************************************************************************)
(* Leak-detector ML service: feature engineering and width reconciliation  *)
(* (MLService.preprocess_data / _engineer_features), hybrid anomaly        *)
(* scoring (MLService.detect_anomalies), the three severity mappings,      *)
(* on-demand SHAP attribution (MLService.compute_shap_values, sequential   *)
(* and concurrent) and its summary, the MLService singleton, the fallback  *)
(* DummyMLService, and the POST /upload handler.                           *)
(*                                                                         *)
(* Data frames are sequences of columns; a column is a record              *)
(*   [name |-> <<...>>, dtype |-> "...", vals |-> <<cell, ...>>]           *)
(* with one cell per row.  Column names are tuples: <<"tax_rate">>,        *)
(* <<"currency", 2>> (the dummy "currency_<category 2>"), <<"feature", 7>> *)
(* (the padding column "feature_7").                                       *)
(***************************************************************************)
EXTENDS Integers, Sequences, FiniteSets

VARIABLES
    n_features_in_,   \* self.scaler.n_features_in_: the scaler's input width W
    dummy_dtype,      \* dtype pd.get_dummies gives its columns (library version)
    df,               \* the caller's raw batch
    df_clean,         \* preprocess_data: df.copy() with the date columns parsed
    built_df,         \* _engineer_features: the table before width reconciliation
    features_df,      \* preprocess_data: result of _engineer_features
    scaler_input,     \* preprocess_data: features_df[numeric_features]
    df_scaled,        \* preprocess_data: the scaled frame it returns
    pp,               \* outcome of the last preprocess_data call
    pp_log,           \* what each preprocess_data call so far was given and returned
    reconstruction_errors,  \* autoencoder: mean squared reconstruction error per row
    supervised_scores,      \* classifier: anomaly-class probability per row (tenths)
    reconstruction_scores,  \* detect_anomalies: the normalized errors of the last call
    anomalies,              \* detect_anomalies: the list the last call returned
    calls,                  \* history of detect_anomalies calls that returned, on this batch
    last_detect,            \* the last detect_anomalies call: failure, outcome, what the caller got
    shap_explainer,         \* self.shap_explainer: None, or the explainer's background
    shap_computations,      \* per row_index, how often the estimator computed its attribution
    shap_result,            \* the mapping the last compute_shap_values call returned
    last_explain,           \* the last compute_shap_values call: arguments, failure, outcome
    summary,                \* the last generate_summary call: its argument and its text
    sev_score,              \* an anomaly score
    sev_real,               \* its severity by MLService.detect_anomalies
    sev_dummy,              \* its severity by DummyMLService.detect_anomalies
    sev_level,              \* its severity by Anomaly.severity_level
    threads,                \* concurrent compute_shap_values callers: position and locals
    constructions,          \* how many KernelExplainer objects have been constructed
    explainer_id,           \* which of them self.shap_explainer refers to (0: None)
    dummy_clean,            \* DummyMLService.preprocess_data: the df_clean it returns
    dummy_scaled,           \* DummyMLService.preprocess_data: the df_scaled it returns
    dummy_pp,               \* outcome of the last DummyMLService.preprocess_data call
    dummy_anomalies,        \* DummyMLService.detect_anomalies: the list the last call returned
    dummy_detect,           \* the last DummyMLService.detect_anomalies call: draws and outcome
    dummy_shap,             \* what DummyMLService.compute_shap_values returned last
    count_len,              \* a batch length len(df_original)
    count_num,              \* num_anomalies drawn for it (-1: not drawn)
    module_state,           \* ml_service.py: "importing", "imported" or "failed"
    _instance,              \* MLService._instance: 0 for None, else the object's number
    _models_loaded,         \* self._models_loaded as MLService.__init__ reads it
    load_count,             \* how often load_models has run
    models,                 \* which load created self.scaler, .supervised_model, .autoencoder
    ml_service,             \* the module's global ml_service (0: not bound yet)
    yielded,                \* the objects MLService() and get_ml_service() have returned
    service_calls,          \* how many such calls callers have made
    upload_count,           \* POST /upload requests handled
    last_upload,            \* the last of them: the file sent and the response
    stored_files,           \* files in the storage directory
    upload_rows,            \* committed rows of the uploads table
    job_storage,            \* process.py: job_storage, the jobs in creation order
    tasks,                  \* where each job's _simulate_ml_processing task stands
    last_poll               \* the last get_job_status request and its response

featVars == <<n_features_in_, dummy_dtype, df, df_clean, built_df, features_df,
              scaler_input, df_scaled, pp, pp_log>>

detectVars == <<reconstruction_errors, supervised_scores, reconstruction_scores,
                anomalies, calls, last_detect>>

explainVars == <<shap_explainer, shap_computations, shap_result, last_explain, summary>>

sevVars == <<sev_score, sev_real, sev_dummy, sev_level>>

raceVars == <<threads, constructions, explainer_id>>

dummyVars == <<dummy_clean, dummy_scaled, dummy_pp, dummy_anomalies, dummy_detect,
               dummy_shap, count_len, count_num>>

serviceVars == <<module_state, _instance, _models_loaded, load_count, models, ml_service,
                 yielded, service_calls>>

\* what preprocess_data, detect_anomalies, compute_shap_values and
\* generate_summary do not touch
uploadVars == <<upload_count, last_upload, stored_files, upload_rows>>

jobVars == <<job_storage, tasks, last_poll>>

auxVars == <<dummyVars, serviceVars, uploadVars, jobVars>>

vars == <<featVars, detectVars, explainVars, sevVars, raceVars, auxVars>>

----------------------------------------------------------------------------
(* Bounds of the model. *)

\* rows of a raw batch
MaxRows == 2
\* largest scaler width explored
MaxW == 3
\* largest raw reconstruction error
MaxErr == 2
\* detect_anomalies calls on one batch
MaxCalls == 2
\* compute_shap_values calls per row
MaxExplain == 2
\* the scores classified are the multiples of 1 / ScoreSteps in [0,1]
ScoreSteps == 100
\* threads calling compute_shap_values at the same time
MaxThreads == 2
\* MLService() and get_ml_service() calls made by callers
MaxServiceCalls == 3
\* POST /upload requests
MaxUploads == 4
\* rows of the long batch given to the fallback scorer
DummyRows == 25
\* largest batch length whose num_anomalies is drawn (besides 1000)
MaxBatchLen == 40

----------------------------------------------------------------------------
(* Column lists of the source. *)

numeric_cols ==
    << "invoice_amount", "tax_amount", "total_amount", "discount_applied",
       "refund_amount", "retries", "gateway_fee", "usage_units",
       "usage_cost", "rounding_diff" >>

date_columns == << "invoice_date", "due_date", "payment_date" >>

categorical_cols ==
    << "currency", "payment_status", "payment_method", "subscription_plan",
       "billing_cycle", "country", "failed_reason", "system_version" >>

Range(s) == { s[i] : i \in DOMAIN s }

(* Cells are tagged tuples so that values of different kinds compare. *)
Num(v)  == <<"num", v>>      \* a number
NaN     == <<"nan">>         \* missing value
NaT     == <<"NaT">>         \* missing timestamp
Str(d)  == <<"str", d>>      \* raw CSV text of the date with day number d
Ts(d)   == <<"ts", d>>       \* parsed Timestamp of day d
Cat(k)  == <<"cat", k>>      \* category value number k of a categorical column
Bool(b) == <<"bool", b>>     \* True / False

None      == <<"None">>     \* Python's None
EmptyDict == <<>>           \* {}
Unset     == "unset"        \* a result not computed yet

\* the severity results before anything computed them
SeverityIdle ==
    /\ sev_score = <<0, 1>>
    /\ sev_real = Unset /\ sev_dummy = Unset /\ sev_level = Unset

\* no caller inside compute_shap_values, no explainer constructed
RaceIdle ==
    /\ threads = <<>>
    /\ constructions = 0
    /\ explainer_id = 0

\* dtypes that select_dtypes(include=[np.number]) keeps
NumberDtypes == { "int64", "float64", "uint8" }

----------------------------------------------------------------------------
(* Data-frame helpers (pandas semantics). *)

Column(name, dtype, vals) == [name |-> name, dtype |-> dtype, vals |-> vals]

\* A data frame: its row count (the index) and its columns in order.
Frame(nrows, cols) == [nrows |-> nrows, cols |-> cols]

\* pd.DataFrame(index=df.index)
EmptyFrame(nrows) == Frame(nrows, <<>>)

Names(frame) == { frame.cols[i].name : i \in DOMAIN frame.cols }

\* name in frame / name in frame.columns
HasColumn(frame, name) == name \in Names(frame)

\* frame[name]
GetColumn(frame, name) ==
    frame.cols[CHOOSE i \in DOMAIN frame.cols : frame.cols[i].name = name]

\* frame[name] = column : replaces the column of that name, or appends it
SetColumn(frame, col) ==
    IF HasColumn(frame, col.name)
    THEN Frame(frame.nrows,
               [i \in DOMAIN frame.cols |->
                   IF frame.cols[i].name = col.name THEN col ELSE frame.cols[i]])
    ELSE Frame(frame.nrows, Append(frame.cols, col))

\* pd.concat([frame, other], axis=1)
ConcatColumns(frame, cols) == Frame(frame.nrows, frame.cols \o cols)

\* len(frame.columns)
Width(frame) == Len(frame.cols)

\* Series.fillna(0)
FillNa0(vals) ==
    [r \in DOMAIN vals |-> IF vals[r] \in {NaN, NaT} THEN Num(0) ELSE vals[r]]

\* dtype of Series.fillna(0): the values are kept, so is the dtype
FillNaDtype(dtype) == dtype

\* pd.to_datetime(series, errors='coerce')
ToDatetime(col) ==
    Column(col.name, "datetime64",
           [r \in DOMAIN col.vals |->
               IF col.vals[r][1] = "str" THEN Ts(col.vals[r][2])
               ELSE IF col.vals[r][1] = "ts" THEN col.vals[r]
               ELSE NaT])

\* (a - b).dt.days of two datetime columns
DeltaDays(a, b) ==
    [r \in DOMAIN a |->
        IF a[r][1] = "ts" /\ b[r][1] = "ts" THEN Num(a[r][2] - b[r][2]) ELSE NaN]

\* the number -1e-6, for which x + 1e-6 is exactly 0.0, and the infinities
NegEps == <<"negeps">>
Inf(sign) == <<"inf", sign>>

\* n / (d + 1e-6) of two number cells, kept symbolic unless the numerator is 0
\* or the denominator d + 1e-6 is 0.0: x / 0.0 is inf or -inf for x # 0 and
\* NaN for x = 0, as numpy divides
RatioCell(n, d) ==
    IF n = NaN \/ d = NaN THEN NaN
    ELSE IF d = NegEps
         THEN IF n = Num(0) THEN NaN
              ELSE IF n = NegEps \/ (n[1] = "num" /\ n[2] < 0) THEN Inf(-1)
              ELSE Inf(1)
    ELSE IF n[1] # "num" \/ d[1] # "num" THEN <<"tiny", n, d>>
    ELSE IF n[2] = 0 THEN Num(0)
    ELSE <<"ratio", n[2], d[2]>>

\* the distinct category numbers of a categorical column, ascending
RECURSIVE SortedSeq(_)
SortedSeq(S) ==
    IF S = {} THEN <<>>
    ELSE LET m == CHOOSE x \in S : \A y \in S : x <= y
         IN  <<m>> \o SortedSeq(S \ {m})

Categories(vals) ==
    SortedSeq({ vals[r][2] : r \in { q \in DOMAIN vals : vals[q][1] = "cat" } })

\* pd.get_dummies(series, prefix=col, drop_first=True): one indicator column
\* per category except the first, in category order
GetDummies(col, dtype) ==
    LET cats == Categories(col.vals)
    IN  [j \in 1 .. (IF Len(cats) = 0 THEN 0 ELSE Len(cats) - 1) |->
            Column(<<col.name[1], cats[j + 1]>>, dtype,
                   [r \in DOMAIN col.vals |->
                       LET hit == col.vals[r] = Cat(cats[j + 1])
                       IN  IF dtype = "bool" THEN Bool(hit)
                           ELSE Num(IF hit THEN 1 ELSE 0)])]

\* frame.select_dtypes(include=[np.number])
SelectNumber(frame) ==
    Frame(frame.nrows, SelectSeq(frame.cols, LAMBDA c : c.dtype \in NumberDtypes))

\* mutant of ILocColumns: frame.iloc[:, -n:], the last n columns
ILocColumns_Last(frame, n) ==
    Frame(frame.nrows,
          SubSeq(frame.cols,
                 (IF n < Width(frame) THEN Width(frame) - n ELSE 0) + 1, Width(frame)))

\* frame.iloc[:, :n]
ILocColumns(frame, n) ==
    Frame(frame.nrows, SubSeq(frame.cols, 1, IF n < Width(frame) THEN n ELSE Width(frame)))

----------------------------------------------------------------------------
(* MLService._engineer_features, step by step. *)

\* for col in numeric_cols: if col in df.columns: features[col] = df[col].fillna(0)
RECURSIVE CopyNumeric(_, _, _)
CopyNumeric(frame, features, i) ==
    IF i > Len(numeric_cols) THEN features
    ELSE LET name == <<numeric_cols[i]>>
         IN  CopyNumeric(frame,
                 IF HasColumn(frame, name)
                 THEN SetColumn(features,
                          Column(name, FillNaDtype(GetColumn(frame, name).dtype),
                                 FillNa0(GetColumn(frame, name).vals)))
                 ELSE features,
                 i + 1)

\* payment_delay_days and due_delay_days, each when both of its dates are present
DateFeatures(frame, features) ==
    LET f1 == IF HasColumn(frame, <<"invoice_date">>) /\ HasColumn(frame, <<"payment_date">>)
              THEN SetColumn(features,
                       Column(<<"payment_delay_days">>, "float64",
                              FillNa0(DeltaDays(GetColumn(frame, <<"payment_date">>).vals,
                                                GetColumn(frame, <<"invoice_date">>).vals))))
              ELSE features
    IN  IF HasColumn(frame, <<"invoice_date">>) /\ HasColumn(frame, <<"due_date">>)
        THEN SetColumn(f1,
                 Column(<<"due_delay_days">>, "float64",
                        FillNa0(DeltaDays(GetColumn(frame, <<"due_date">>).vals,
                                          GetColumn(frame, <<"invoice_date">>).vals))))
        ELSE f1

\* for col in categorical_cols: features = concat([features, get_dummies(df[col])])
RECURSIVE OneHot(_, _, _, _)
OneHot(frame, features, dtype, i) ==
    IF i > Len(categorical_cols) THEN features
    ELSE LET name == <<categorical_cols[i]>>
         IN  OneHot(frame,
                 IF HasColumn(frame, name)
                 THEN ConcatColumns(features, GetDummies(GetColumn(frame, name), dtype))
                 ELSE features,
                 dtype, i + 1)

\* features['is_prorated'] = df['is_prorated'].fillna(0)
BooleanFeatures(frame, features) ==
    IF HasColumn(frame, <<"is_prorated">>)
    THEN SetColumn(features,
             Column(<<"is_prorated">>,
                    FillNaDtype(GetColumn(frame, <<"is_prorated">>).dtype),
                    FillNa0(GetColumn(frame, <<"is_prorated">>).vals)))
    ELSE features

\* features[name] = (features[num] / (features[den] + 1e-6)).fillna(0)
RatioFeature(features, name, num, den) ==
    IF HasColumn(features, <<num>>) /\ HasColumn(features, <<den>>)
    THEN SetColumn(features,
             Column(<<name>>, "float64",
                    FillNa0([r \in 1 .. features.nrows |->
                                RatioCell(GetColumn(features, <<num>>).vals[r],
                                          GetColumn(features, <<den>>).vals[r])])))
    ELSE features

DerivedFeatures(features) ==
    RatioFeature(RatioFeature(features, "tax_rate", "tax_amount", "invoice_amount"),
                 "refund_rate", "refund_amount", "total_amount")

\* mutant of PadFeatures: the padding columns are put in front of the built ones
RECURSIVE PadFeatures_Front(_, _, _)
PadFeatures_Front(features, i, expected_features) ==
    IF i >= expected_features THEN features
    ELSE PadFeatures_Front(
             Frame(features.nrows,
                   <<Column(<<"feature", i>>, "int64",
                            [r \in 1 .. features.nrows |-> Num(0)])>> \o features.cols),
             i + 1, expected_features)

\* for i in range(current_features, expected_features): features[f'feature_{i}'] = 0
RECURSIVE PadFeatures(_, _, _)
PadFeatures(features, i, expected_features) ==
    IF i >= expected_features THEN features
    ELSE PadFeatures(
             SetColumn(features,
                 Column(<<"feature", i>>, "int64", [r \in 1 .. features.nrows |-> Num(0)])),
             i + 1, expected_features)

\* mutant of ReconcileWidth: pads a narrow table, never truncates a wide one
ReconcileWidth_PadOnly(features, expected_features) ==
    IF Width(features) < expected_features
    THEN PadFeatures(features, Width(features), expected_features)
    ELSE features

\* the width reconciliation that ends _engineer_features
ReconcileWidth(features, expected_features) ==
    LET current_features == Width(features)
    IN  IF current_features < expected_features
        THEN PadFeatures(features, current_features, expected_features)
        ELSE IF current_features > expected_features
        THEN ILocColumns(features, expected_features)
        ELSE features

\* the columns built before the reconciliation, in construction order
BuiltFeatures(frame, dtype) ==
    DerivedFeatures(
        BooleanFeatures(frame,
            OneHot(frame,
                DateFeatures(frame,
                    CopyNumeric(frame, EmptyFrame(frame.nrows), 1)),
                dtype, 1)))

_engineer_features(frame, expected_features, dtype) ==
    ReconcileWidth(BuiltFeatures(frame, dtype), expected_features)



----------------------------------------------------------------------------
(* The scaler: an opaque pre-trained transform of n_features_in_ columns. *)

\* scaler.transform raises ValueError unless it is handed n_features_in_ columns
\* of finite values (inf is rejected by the input validation)
TransformRaises(frame, expected_features) ==
    \/ Width(frame) # expected_features
    \/ \E i \in DOMAIN frame.cols : \E r \in DOMAIN frame.cols[i].vals :
          frame.cols[i].vals[r][1] = "inf"

\* the scaled cell of feature column j: a fixed function of the frozen parameters
ScaledCell(j, cell) == <<"scaled", j, cell>>

\* mutant of Transform: the scaler is refitted by every call, so its
\* parameters depend on the calls made before
Transform_Refit(frame) ==
    Frame(frame.nrows,
          [j \in DOMAIN frame.cols |->
              Column(frame.cols[j].name, "float64",
                     [r \in DOMAIN frame.cols[j].vals |->
                         ScaledCell(j + Cardinality(pp_log), frame.cols[j].vals[r])])])

\* pd.DataFrame(scaler.transform(X), columns=numeric_features, index=X.index)
Transform(frame) ==
    Frame(frame.nrows,
          [j \in DOMAIN frame.cols |->
              Column(frame.cols[j].name, "float64",
                     [r \in DOMAIN frame.cols[j].vals |->
                         ScaledCell(j, frame.cols[j].vals[r])])])

----------------------------------------------------------------------------
(* MLService.preprocess_data *)

\* df_clean = df.copy(); each date column present is parsed with to_datetime
ParseDates(frame) ==
    Frame(frame.nrows,
          [i \in DOMAIN frame.cols |->
              IF frame.cols[i].name \in { <<date_columns[k]>> : k \in DOMAIN date_columns }
              THEN ToDatetime(frame.cols[i])
              ELSE frame.cols[i]])

NoFrame == Frame(0, <<>>)

\* no compute_shap_values call yet, no generate_summary call yet
NoCall ==
    [row_index |-> -1, failure |-> "nocall", outcome |-> "nocall",
     batch |-> NoFrame, background |-> NoFrame]

NoSummary == [shap_values |-> EmptyDict, text |-> <<Unset>>]

\* nothing fails in a detect_anomalies call
NoFailure == [stage |-> "none", at |-> 0]

\* no detect_anomalies call yet
NoDetect ==
    [failure |-> NoFailure, outcome |-> "nocall", emitted |-> <<>>, received |-> <<>>]

\* no call of the fallback service yet
NoDummyDetect == [threshold |-> <<0, 1>>, num_anomalies |-> -1, outcome |-> "nocall"]

DummyIdle ==
    /\ dummy_clean = NoFrame
    /\ dummy_scaled = NoFrame
    /\ dummy_pp = "idle"
    /\ dummy_anomalies = <<>>
    /\ dummy_detect = NoDummyDetect
    /\ dummy_shap = EmptyDict
    /\ count_len = 0
    /\ count_num = -1

\* the module imported: ml_service = MLService() has loaded the models
ServiceLoaded ==
    /\ module_state = "imported"
    /\ _instance = 1
    /\ _models_loaded = TRUE
    /\ load_count = 1
    /\ models = <<1, 1, 1>>
    /\ ml_service = 1
    /\ yielded = {}
    /\ service_calls = 0

\* no upload request yet
NoUpload ==
    [csv_name |-> TRUE, content |-> "none", status |-> 0, detail |-> "none",
     saved |-> FALSE, persisted |-> FALSE]

UploadIdle ==
    /\ upload_count = 0
    /\ last_upload = NoUpload
    /\ stored_files = 0
    /\ upload_rows = 0

\* no get_job_status request yet
NoPoll == [job_id |-> 0, code |-> 0, status |-> "none", progress |-> -1]

\* process.py just imported: job_storage = {}
JobIdle ==
    /\ job_storage = <<>>
    /\ tasks = <<>>
    /\ last_poll = NoPoll

AuxIdle == DummyIdle /\ ServiceLoaded /\ UploadIdle /\ JobIdle

\* the explainer before anything used it
ExplainIdle ==
    /\ shap_explainer = None
    /\ shap_computations = <<>>
    /\ shap_result = EmptyDict
    /\ last_explain = NoCall
    /\ summary = NoSummary

\* the pp_log entry of a call: the caller's batch before and after it, what
\* it returned, the service's models before and after it, and whether the
\* same raw batch had been preprocessed before
PreprocessEntry(raw, raw_after, clean, scaled, models_before, models_after, repeat) ==
    [raw |-> raw, raw_after |-> raw_after, clean |-> clean, scaled |-> scaled,
     models_before |-> models_before, models_after |-> models_after, repeat |-> repeat]

Preprocess ==
    /\ _models_loaded
    /\ pp = "idle"
    /\ LET clean    == ParseDates(df)
           feats    == _engineer_features(clean, n_features_in_, dummy_dtype)
           selected == SelectNumber(feats)
       IN  /\ df_clean' = clean
           /\ built_df' = BuiltFeatures(clean, dummy_dtype)
           /\ features_df' = feats
           /\ scaler_input' = selected
           /\ IF TransformRaises(selected, n_features_in_)
              THEN pp' = "raised" /\ df_scaled' = NoFrame
              ELSE pp' = "returned" /\ df_scaled' = Transform(selected)
           /\ pp_log' = pp_log \cup
                 { PreprocessEntry(df, df, clean, df_scaled', models, models,
                                   \E entry \in pp_log : entry.raw = df) }
    /\ UNCHANGED <<n_features_in_, dummy_dtype, df, detectVars, explainVars, sevVars, raceVars,
                   auxVars>>

----------------------------------------------------------------------------
(* Raw batches the caller may upload. *)

\* the columns a generated batch may hold, in CSV order
PoolCols ==
    << "invoice_amount", "tax_amount", "total_amount", "refund_amount", "retries",
       "invoice_date", "due_date", "payment_date", "currency", "country",
       "is_prorated" >>

PoolIndex(c) == CHOOSE i \in DOMAIN PoolCols : PoolCols[i] = c

\* the raw column c of a batch of nrows rows whose row `missing` (0: none) is
\* empty; is_prorated is read as True/False or as 0/1
RawColumn(c, nrows, missing, prorated) ==
    LET holes == missing \in 1 .. nrows
        Cell(r, v) == IF r = missing THEN NaN ELSE v
    IN  IF c \in Range(numeric_cols)
        THEN Column(<<c>>, IF holes THEN "float64" ELSE "int64",
                    [r \in 1 .. nrows |-> Cell(r, Num(10 * PoolIndex(c) + r))])
        ELSE IF c \in Range(date_columns)
        THEN Column(<<c>>, "object",
                    [r \in 1 .. nrows |-> Cell(r, Str(PoolIndex(c) + r))])
        ELSE IF c \in Range(categorical_cols)
        THEN Column(<<c>>, "object", [r \in 1 .. nrows |-> Cell(r, Cat(r))])
        ELSE IF prorated = "bool"
        THEN Column(<<c>>, IF holes THEN "object" ELSE "bool",
                    [r \in 1 .. nrows |-> Cell(r, Bool(r % 2 = 1))])
        ELSE Column(<<c>>, IF holes THEN "float64" ELSE "int64",
                    [r \in 1 .. nrows |-> Cell(r, Num(r % 2))])

RawBatch(present, nrows, missing, prorated) ==
    Frame(nrows,
          [i \in 1 .. Len(SelectSeq(PoolCols, LAMBDA c : c \in present)) |->
              RawColumn(SelectSeq(PoolCols, LAMBDA c : c \in present)[i],
                        nrows, missing, prorated)])

Batches ==
    { RawBatch(present, nrows, missing, prorated) :
        present \in SUBSET Range(PoolCols), nrows \in 1 .. MaxRows,
        missing \in 0 .. MaxRows, prorated \in {"bool", "int"} }

----------------------------------------------------------------------------
(* Specification of the preprocessing pipeline. *)

InitFeat ==
    /\ n_features_in_ \in 1 .. MaxW
    /\ dummy_dtype \in {"uint8", "bool"}
    /\ df \in Batches
    /\ df_clean = NoFrame
    /\ built_df = NoFrame
    /\ features_df = NoFrame
    /\ scaler_input = NoFrame
    /\ df_scaled = NoFrame
    /\ pp = "idle"
    /\ pp_log = {}
    /\ reconstruction_errors = <<>>
    /\ supervised_scores = <<>>
    /\ reconstruction_scores = <<>>
    /\ anomalies = <<>>
    /\ calls = <<>>
    /\ last_detect = NoDetect
    /\ ExplainIdle
    /\ SeverityIdle
    /\ RaceIdle
    /\ AuxIdle

NextFeat == Preprocess

SpecFeat == InitFeat /\ [][NextFeat]_vars

----------------------------------------------------------------------------
(* Specification of the ratio features: one-row batches holding the four    *)
(* operand columns, a cell of each missing, zero, an ordinary number or     *)
(* (for the denominators) the number -1e-6.                                 *)

Numerators == {NaN, Num(0), Num(3), Num(-3)}

Denominators == {NaN, Num(0), Num(2), NegEps}

RatioBatches ==
    { Frame(1, << Column(<<"invoice_amount">>, "float64", <<invoice_amount>>),
                  Column(<<"tax_amount">>, "float64", <<tax_amount>>),
                  Column(<<"total_amount">>, "float64", <<total_amount>>),
                  Column(<<"refund_amount">>, "float64", <<refund_amount>>) >>) :
        invoice_amount \in Denominators, tax_amount \in Numerators,
        total_amount \in Denominators, refund_amount \in Numerators }

InitRatio ==
    /\ n_features_in_ \in {2, 6}
    /\ dummy_dtype = "uint8"
    /\ df \in RatioBatches
    /\ df_clean = NoFrame
    /\ built_df = NoFrame
    /\ features_df = NoFrame
    /\ scaler_input = NoFrame
    /\ df_scaled = NoFrame
    /\ pp = "idle"
    /\ pp_log = {}
    /\ reconstruction_errors = <<>>
    /\ supervised_scores = <<>>
    /\ reconstruction_scores = <<>>
    /\ anomalies = <<>>
    /\ calls = <<>>
    /\ last_detect = NoDetect
    /\ ExplainIdle
    /\ SeverityIdle
    /\ RaceIdle
    /\ AuxIdle

NextRatio == Preprocess

SpecRatio == InitRatio /\ [][NextRatio]_vars

----------------------------------------------------------------------------
(* Scores.  A float score is an exact fraction <<numerator, denominator>>   *)
(* with a positive denominator; probabilities and thresholds are tenths.    *)

Rat(n, d) == <<n, d>>

RatGE(a, b) == a[1] * b[2] >= b[1] * a[2]

RatEQ(a, b) == a[1] * b[2] = b[1] * a[2]

RatAdd(a, b) == Rat(a[1] * b[2] + b[1] * a[2], a[2] * b[2])

RatMul(a, b) == Rat(a[1] * b[1], a[2] * b[2])

Tenths(t) == Rat(t, 10)

\* the literals of the source
WeightReconstruction == Tenths(6)
WeightSupervised     == Tenths(4)
SeverityHigh         == Tenths(8)
SeverityMedium       == Tenths(5)

----------------------------------------------------------------------------
(* The three severity mappings. *)

\* mutant of RealSeverity: the boundaries belong to the lower tier
RealSeverity_Strict(score) ==
    IF ~RatGE(SeverityHigh, score) THEN "high"
    ELSE IF ~RatGE(SeverityMedium, score) THEN "medium"
    ELSE "low"

\* MLService.detect_anomalies: severity of a combined score
RealSeverity(score) ==
    IF RatGE(score, SeverityHigh) THEN "high"
    ELSE IF RatGE(score, SeverityMedium) THEN "medium"
    ELSE "low"

\* DummyMLService.detect_anomalies: severity of a synthetic score
DummySeverity(score) ==
    IF RatGE(score, SeverityHigh) THEN "high"
    ELSE IF RatGE(score, SeverityMedium) THEN "medium"
    ELSE "low"

\* mutant of SeverityLevel: a score of exactly 0.8 is not yet "high"
SeverityLevel_Strict(anomaly_score) ==
    IF ~RatGE(SeverityHigh, anomaly_score) THEN "high"
    ELSE IF RatGE(anomaly_score, SeverityMedium) THEN "medium"
    ELSE "low"

\* Anomaly.severity_level: severity of float(self.anomaly_score)
SeverityLevel(anomaly_score) ==
    IF RatGE(anomaly_score, SeverityHigh) THEN "high"
    ELSE IF RatGE(anomaly_score, SeverityMedium) THEN "medium"
    ELSE "low"

----------------------------------------------------------------------------
(* MLService.detect_anomalies *)

\* np.max(reconstruction_errors)
RECURSIVE MaxOf(_, _)
MaxOf(errors, i) ==
    IF i = 1 THEN errors[1]
    ELSE LET m == MaxOf(errors, i - 1)
         IN  IF errors[i] > m THEN errors[i] ELSE m

\* mutant of Normalize: min-max scaling (e - min) / (max - min) where max > min
Normalize_MinMax(errors) ==
    LET hi == MaxOf(errors, Len(errors))
        lo == -MaxOf([i \in DOMAIN errors |-> -errors[i]], Len(errors))
    IN  [i \in DOMAIN errors |->
            IF hi > lo THEN Rat(errors[i] - lo, hi - lo) ELSE Rat(errors[i], 1)]

\* reconstruction_errors / max_error if max_error > 0, else the errors as they are
Normalize(errors) ==
    LET max_error == MaxOf(errors, Len(errors))
    IN  [i \in DOMAIN errors |->
            IF max_error > 0 THEN Rat(errors[i], max_error) ELSE Rat(errors[i], 1)]

\* 0.6 * reconstruction_scores + 0.4 * supervised_scores
Combine(recon_scores, sup_scores) ==
    [i \in DOMAIN recon_scores |->
        RatAdd(RatMul(WeightReconstruction, recon_scores[i]),
               RatMul(WeightSupervised, Tenths(sup_scores[i])))]

\* np.where(mask)[0]: the ascending positions (1-based here) where mask holds
RECURSIVE Where(_, _)
Where(mask, i) ==
    IF i > Len(mask) THEN <<>>
    ELSE (IF mask[i] THEN <<i>> ELSE <<>>) \o Where(mask, i + 1)

\* mutant of AnomalyIndices: a score equal to the threshold is left out
AnomalyIndices_Above(combined_scores, threshold) ==
    Where([i \in DOMAIN combined_scores |-> ~RatGE(threshold, combined_scores[i])], 1)

\* mutant of AnomalyIndices: the comparison is inverted
AnomalyIndices_Below(combined_scores, threshold) ==
    Where([i \in DOMAIN combined_scores |-> RatGE(threshold, combined_scores[i])], 1)

\* np.where(combined_scores >= threshold)[0]
AnomalyIndices(combined_scores, threshold) ==
    Where([i \in DOMAIN combined_scores |-> RatGE(combined_scores[i], threshold)], 1)

\* self.supervised_model.predict(row)[0]: the class of larger probability
Predict(sup_score) == IF sup_score > 5 THEN "1" ELSE "0"

\* row_data.to_dict(): the cells of row idx under their column names
RowDict(frame, idx) ==
    [i \in DOMAIN frame.cols |-> <<frame.cols[i].name, frame.cols[i].vals[idx]>>]

\* dict.get(key, default) on such a mapping
DictGet(dict, key, default) ==
    IF \E i \in DOMAIN dict : dict[i][1] = key
    THEN dict[CHOOSE i \in DOMAIN dict : dict[i][1] = key][2]
    ELSE default

\* value.isoformat(): the ISO text of a Timestamp, 'NaT' for NaT, an
\* AttributeError for a str or a float
IsoFormat(cell) ==
    IF cell[1] = "ts" THEN <<"iso", cell[2]>>
    ELSE IF cell = NaT THEN <<"NaT">>
    ELSE <<"AttributeError">>

\* row_data.get('invoice_date', datetime.now()).isoformat()
\*     if 'invoice_date' in row_data else datetime.now().isoformat()
Timestamp(row_data) ==
    IF \E i \in DOMAIN row_data : row_data[i][1] = <<"invoice_date">>
    THEN IsoFormat(DictGet(row_data, <<"invoice_date">>, <<"now">>))
    ELSE <<"now">>

\* the record built for row idx (1-based; row_index is 0-based)
AnomalyRecord(df_original, idx, errors, sup_scores, combined_scores) ==
    [ row_index            |-> idx - 1,
      anomaly_score        |-> combined_scores[idx],
      severity             |-> RealSeverity(combined_scores[idx]),
      model_prediction     |-> Predict(sup_scores[idx]),
      reconstruction_error |-> errors[idx],
      supervised_score     |-> Tenths(sup_scores[idx]),
      timestamp            |-> Timestamp(RowDict(df_original, idx)),
      feature_values       |-> RowDict(df_original, idx),
      shap_values          |-> None ]

\* the list detect_anomalies returns
DetectAnomalies(df_original, errors, sup_scores, threshold) ==
    LET combined_scores == Combine(Normalize(errors), sup_scores)
        anomaly_indices == AnomalyIndices(combined_scores, threshold)
    IN  [k \in DOMAIN anomaly_indices |->
            AnomalyRecord(df_original, anomaly_indices[k], errors, sup_scores,
                          combined_scores)]

\* thresholds the caller passes, in tenths
Thresholds == {0, 3, 5, 8, 10}

\* where a model can fail in a call that would emit the records `full`: the
\* autoencoder's batch prediction, the classifier's predict_proba, or the
\* classifier's predict for the at-th record emitted
ModelFailures(full) ==
    { NoFailure, [stage |-> "autoencoder", at |-> 0], [stage |-> "predict_proba", at |-> 0] }
    \cup { [stage |-> "predict", at |-> k] : k \in DOMAIN full }

\* the first record whose timestamp cannot be formatted (0: none)
FirstBadTimestamp(full) ==
    IF \E k \in DOMAIN full : full[k].timestamp = <<"AttributeError">>
    THEN CHOOSE k \in DOMAIN full :
            /\ full[k].timestamp = <<"AttributeError">>
            /\ \A j \in 1 .. (k - 1) : full[j].timestamp # <<"AttributeError">>
    ELSE 0

\* one run of the method body: whether an exception left it, and the local
\* list `anomalies` at that moment.  For record k the label prediction comes
\* before the timestamp is formatted.
DetectRun(full, failure) ==
    LET bad == FirstBadTimestamp(full)
        stop == IF failure.stage \in {"autoencoder", "predict_proba"} THEN 1
                ELSE IF failure.stage = "predict" /\ (bad = 0 \/ failure.at <= bad)
                THEN failure.at
                ELSE bad
    IN  [raised |-> stop # 0,
         emitted |-> IF stop = 0 THEN full ELSE SubSeq(full, 1, stop - 1)]

\* mutant of DetectReturn: the records emitted before the exception are returned
DetectReturn_Partial(run) == run.emitted

\* what the caller receives: return anomalies, or nothing when the exception
\* propagates
DetectReturn(run) == IF run.raised THEN <<>> ELSE run.emitted

\* the last_detect entry of a call
LastDetect(failure, run) ==
    [failure |-> failure, outcome |-> IF run.raised THEN "raised" ELSE "returned",
     emitted |-> run.emitted, received |-> DetectReturn(run)]

\* one detect_anomalies(df_clean, df_scaled, t / 10) call in which the models
\* behave as `failure` says
Detect(t, failure) ==
    /\ _models_loaded
    /\ pp = "returned"
    /\ Len(calls) < MaxCalls
    /\ LET full == DetectAnomalies(df_clean, reconstruction_errors, supervised_scores,
                                   Tenths(t))
       IN  /\ failure \in ModelFailures(full)
           /\ LET run == DetectRun(full, failure)
              IN  /\ last_detect' = LastDetect(failure, run)
                  /\ reconstruction_scores' =
                        IF failure.stage = "autoencoder" THEN reconstruction_scores
                        ELSE Normalize(reconstruction_errors)
                  /\ IF run.raised
                     THEN UNCHANGED <<anomalies, calls>>
                     ELSE /\ anomalies' = DetectReturn(run)
                          /\ calls' = Append(calls, [threshold |-> Tenths(t),
                                                     anomalies |-> anomalies'])
    /\ UNCHANGED <<featVars, reconstruction_errors, supervised_scores, explainVars, sevVars,
                   raceVars, auxVars>>

----------------------------------------------------------------------------
(* Specification of scoring: one preprocessed batch, the two models' outputs *)
(* for it, and a sequence of detect_anomalies calls on it.                   *)

\* classifier probabilities of the anomaly class, in tenths
Probs == {0, 5, 10}

ScoringBatches ==
    { RawBatch({"invoice_amount"}, nrows, 0, "int") : nrows \in 1 .. MaxRows }

\* the state preprocess_data leaves for raw batch b and a scaler of width w
PreprocessedInit(b, w) ==
    /\ n_features_in_ = w
    /\ dummy_dtype = "uint8"
    /\ df = b
    /\ df_clean = ParseDates(b)
    /\ built_df = BuiltFeatures(ParseDates(b), "uint8")
    /\ features_df = _engineer_features(ParseDates(b), w, "uint8")
    /\ scaler_input = SelectNumber(_engineer_features(ParseDates(b), w, "uint8"))
    /\ df_scaled = Transform(SelectNumber(_engineer_features(ParseDates(b), w, "uint8")))
    /\ pp = "returned"
    /\ pp_log = { PreprocessEntry(b, b, df_clean, df_scaled, <<1, 1, 1>>, <<1, 1, 1>>, FALSE) }

InitDetect ==
    /\ \E b \in ScoringBatches : PreprocessedInit(b, 2)
    /\ reconstruction_errors \in [1 .. df.nrows -> 0 .. MaxErr]
    /\ supervised_scores \in [1 .. df.nrows -> Probs]
    /\ reconstruction_scores = <<>>
    /\ anomalies = <<>>
    /\ calls = <<>>
    /\ last_detect = NoDetect
    /\ ExplainIdle
    /\ SeverityIdle
    /\ RaceIdle
    /\ AuxIdle

NextDetect == \E t \in Thresholds : Detect(t, NoFailure)

SpecDetect == InitDetect /\ [][NextDetect]_vars

----------------------------------------------------------------------------
(* Specification of failing detection: as above, with calls in which a      *)
(* model raises.                                                            *)

\* the failures tried: each stage, and each record position of a batch
FailureInputs ==
    { NoFailure, [stage |-> "autoencoder", at |-> 0], [stage |-> "predict_proba", at |-> 0] }
    \cup { [stage |-> "predict", at |-> k] : k \in 1 .. MaxRows }

InitDetectFail ==
    /\ \E b \in ScoringBatches : PreprocessedInit(b, 2)
    /\ reconstruction_errors = [i \in 1 .. df.nrows |-> i % 2]
    /\ supervised_scores \in [1 .. df.nrows -> Probs]
    /\ reconstruction_scores = <<>>
    /\ anomalies = <<>>
    /\ calls = <<>>
    /\ last_detect = NoDetect
    /\ ExplainIdle
    /\ SeverityIdle
    /\ RaceIdle
    /\ AuxIdle

NextDetectFail ==
    \E t \in {0, 5, 10} : \E failure \in FailureInputs : Detect(t, failure)

SpecDetectFail == InitDetectFail /\ [][NextDetectFail]_vars

----------------------------------------------------------------------------
(* Specification of process_upload: preprocess_data on the caller's raw     *)
(* batch, then detect_anomalies on what it returned.                        *)

UploadBatches ==
    { RawBatch(present, nrows, missing, "int") :
        present \in SUBSET {"invoice_amount", "invoice_date", "currency"},
        nrows \in 1 .. MaxRows, missing \in 0 .. MaxRows }

InitProcessUpload ==
    /\ n_features_in_ = 2
    /\ dummy_dtype \in {"uint8", "bool"}
    /\ df \in UploadBatches
    /\ df_clean = NoFrame
    /\ built_df = NoFrame
    /\ features_df = NoFrame
    /\ scaler_input = NoFrame
    /\ df_scaled = NoFrame
    /\ pp = "idle"
    /\ pp_log = {}
    /\ reconstruction_errors = [i \in 1 .. df.nrows |-> i % 2]
    /\ supervised_scores \in [1 .. df.nrows -> {0, 10}]
    /\ reconstruction_scores = <<>>
    /\ anomalies = <<>>
    /\ calls = <<>>
    /\ last_detect = NoDetect
    /\ ExplainIdle
    /\ SeverityIdle
    /\ RaceIdle
    /\ AuxIdle

NextProcessUpload == Preprocess \/ \E t \in {0, 5} : Detect(t, NoFailure)

SpecProcessUpload == InitProcessUpload /\ [][NextProcessUpload]_vars

----------------------------------------------------------------------------
(* Specification of the severity mappings: one score, and each of the three *)
(* mappings applied to it.                                                  *)

\* the real scorer classifies the score
ApplyRealSeverity ==
    /\ sev_real = Unset
    /\ sev_real' = RealSeverity(sev_score)
    /\ UNCHANGED <<featVars, detectVars, explainVars, raceVars, sev_score, sev_dummy, sev_level,
                   auxVars>>

\* the fallback scorer classifies the score
ApplyDummySeverity ==
    /\ sev_dummy = Unset
    /\ sev_dummy' = DummySeverity(sev_score)
    /\ UNCHANGED <<featVars, detectVars, explainVars, raceVars, sev_score, sev_real, sev_level,
                   auxVars>>

\* an Anomaly row holding the score computes its severity_level
ApplySeverityLevel ==
    /\ sev_level = Unset
    /\ sev_level' = SeverityLevel(sev_score)
    /\ UNCHANGED <<featVars, detectVars, explainVars, raceVars, sev_score, sev_real, sev_dummy,
                   auxVars>>

InitSeverity ==
    /\ PreprocessedInit(RawBatch({"invoice_amount"}, 1, 0, "int"), 2)
    /\ reconstruction_errors = <<>>
    /\ supervised_scores = <<>>
    /\ reconstruction_scores = <<>>
    /\ anomalies = <<>>
    /\ calls = <<>>
    /\ last_detect = NoDetect
    /\ ExplainIdle
    /\ RaceIdle
    /\ AuxIdle
    /\ sev_score \in { Rat(k, ScoreSteps) : k \in 0 .. ScoreSteps }
    /\ sev_real = Unset /\ sev_dummy = Unset /\ sev_level = Unset

NextSeverity == ApplyRealSeverity \/ ApplyDummySeverity \/ ApplySeverityLevel

SpecSeverity == InitSeverity /\ [][NextSeverity]_vars

----------------------------------------------------------------------------
(* MLService.compute_shap_values *)

\* contributions the attribution estimator may report for one feature
ShapVals == {-2, 0, 1}

Abs(x) == IF x < 0 THEN -x ELSE x

\* mutant of SortByAbs: smallest absolute contribution first
RECURSIVE SortByAbs_Ascending(_)
SortByAbs_Ascending(items) ==
    IF items = <<>> THEN <<>>
    ELSE LET k == CHOOSE i \in DOMAIN items :
                    /\ \A j \in DOMAIN items : Abs(items[i][2]) <= Abs(items[j][2])
                    /\ \A j \in 1 .. (i - 1) : Abs(items[i][2]) < Abs(items[j][2])
         IN  <<items[k]>> \o
             SortByAbs_Ascending([j \in 1 .. (Len(items) - 1) |->
                                     IF j < k THEN items[j] ELSE items[j + 1]])

\* sorted(items, key=lambda item: abs(item[1]), reverse=True): stable
RECURSIVE SortByAbs(_)
SortByAbs(items) ==
    IF items = <<>> THEN <<>>
    ELSE LET k == CHOOSE i \in DOMAIN items :
                    /\ \A j \in DOMAIN items : Abs(items[j][2]) <= Abs(items[i][2])
                    /\ \A j \in 1 .. (i - 1) : Abs(items[j][2]) < Abs(items[i][2])
         IN  <<items[k]>> \o
             SortByAbs([j \in 1 .. (Len(items) - 1) |->
                           IF j < k THEN items[j] ELSE items[j + 1]])

\* shap.KernelExplainer(predict_proba, df_scaled.sample(n=min(background_samples,
\* len(df_scaled)), random_state=42).values): the explainer and the batch its
\* background rows were drawn from
KernelExplainer(frame) == <<"KernelExplainer", frame>>

\* the mapping built from the estimator's contributions, largest first
ShapDict(frame, contribs) ==
    SortByAbs([i \in DOMAIN frame.cols |-> <<frame.cols[i].name, contribs[i]>>])

\* what can go wrong inside the try block of a call: the construction of the
\* explainer (only when it is still unset), the estimator call, or the lookup
\* of a row the batch does not have, which leaves the estimator nothing to
\* explain
ExplainFailures(explainer, frame, row_index) ==
    (IF explainer = None THEN {"explainer"} ELSE {}) \cup
    (IF row_index < frame.nrows THEN {"none", "estimator"} ELSE {"row"})

\* the mappings the call can have built when it returns normally; none is
\* built when something raised
EstimatorOutputs(failure, frame) ==
    IF failure = "none"
    THEN { ShapDict(frame, contribs) : contribs \in [DOMAIN frame.cols -> ShapVals] }
    ELSE { EmptyDict }

\* mutant of ComputeShapResult: the exception leaves the method
ComputeShapResult_Propagate(failure, shap_dict) ==
    IF failure = "none" THEN <<"returned", shap_dict>> ELSE <<"raised", EmptyDict>>

\* return shap_dict, or: except Exception: return {}
ComputeShapResult(failure, shap_dict) ==
    IF failure = "none" THEN <<"returned", shap_dict>> ELSE <<"returned", EmptyDict>>

\* one compute_shap_values(df_scaled, row_index) call
Explain(row_index) ==
    /\ _models_loaded
    /\ pp = "returned"
    /\ shap_computations[row_index] < MaxExplain
    /\ \E failure \in ExplainFailures(shap_explainer, df_scaled, row_index) :
       \E shap_dict \in EstimatorOutputs(failure, df_scaled) :
          LET constructs == shap_explainer = None /\ failure # "explainer"
              result == ComputeShapResult(failure, shap_dict)
          IN  /\ shap_explainer' = IF constructs THEN KernelExplainer(df_scaled)
                                   ELSE shap_explainer
              /\ constructions' = IF constructs THEN constructions + 1 ELSE constructions
              /\ explainer_id' = IF constructs THEN constructions + 1 ELSE explainer_id
              /\ shap_computations' =
                    IF failure = "none"
                    THEN [shap_computations EXCEPT ![row_index] = @ + 1]
                    ELSE shap_computations
              /\ shap_result' = result[2]
              /\ last_explain' =
                    [row_index |-> row_index, failure |-> failure, outcome |-> result[1],
                     batch |-> df_scaled,
                     background |-> IF shap_explainer' = None THEN NoFrame
                                    ELSE shap_explainer'[2]]
    /\ UNCHANGED <<featVars, detectVars, summary, sevVars, threads, auxVars>>

----------------------------------------------------------------------------
(* MLService.generate_summary *)

\* top_n: int = 5
top_n == 5

SummaryUnavailable ==
    <<"Unable to generate explanation due to SHAP computation error.">>

\* mutant of generate_summary: an empty mapping yields the heading alone
generate_summary_NoCheck(shap_values, feature_values) ==
    <<"This transaction was flagged as an anomaly due to:">> \o
    [k \in 1 .. (IF Len(shap_values) < top_n THEN Len(shap_values) ELSE top_n) |->
        << shap_values[k][1],
           DictGet(feature_values, shap_values[k][1], <<"N/A">>),
           IF shap_values[k][2] > 0 THEN "increasing" ELSE "decreasing",
           Abs(shap_values[k][2]) >>]

\* the text: the fixed message for an empty mapping, else the heading and one
\* line (feature, actual value, direction, magnitude) per top feature
generate_summary(shap_values, feature_values) ==
    IF shap_values = EmptyDict THEN SummaryUnavailable
    ELSE <<"This transaction was flagged as an anomaly due to:">> \o
         [k \in 1 .. (IF Len(shap_values) < top_n THEN Len(shap_values) ELSE top_n) |->
             << shap_values[k][1],
                DictGet(feature_values, shap_values[k][1], <<"N/A">>),
                IF shap_values[k][2] > 0 THEN "increasing" ELSE "decreasing",
                Abs(shap_values[k][2]) >>]

\* generate_summary on the mapping the last compute_shap_values call returned
\* and the feature_values of a returned record
Summarize ==
    /\ _models_loaded
    /\ last_explain # NoCall
    /\ \E k \in DOMAIN anomalies :
          summary' = [shap_values |-> shap_result,
                      text |-> generate_summary(shap_result, anomalies[k].feature_values)]
    /\ UNCHANGED <<featVars, detectVars, shap_explainer, shap_computations, shap_result,
                   last_explain, sevVars, raceVars, auxVars>>

----------------------------------------------------------------------------
(* Specification of explanation: a scored batch and a sequence of           *)
(* compute_shap_values calls on it.                                         *)

InitExplain ==
    /\ \E b \in ScoringBatches : PreprocessedInit(b, 2)
    /\ reconstruction_errors = [i \in 1 .. df.nrows |-> i % 2]
    /\ supervised_scores = [i \in 1 .. df.nrows |-> 5 * (i % 3)]
    /\ reconstruction_scores = Normalize(reconstruction_errors)
    /\ anomalies = DetectAnomalies(df_clean, reconstruction_errors, supervised_scores, Tenths(5))
    /\ calls = <<[threshold |-> Tenths(5), anomalies |-> anomalies]>>
    /\ last_detect = LastDetect(NoFailure, DetectRun(anomalies, NoFailure))
    /\ shap_explainer = None
    /\ shap_computations = [r \in 0 .. df.nrows |-> 0]
    /\ shap_result = EmptyDict
    /\ last_explain = NoCall
    /\ summary = NoSummary
    /\ SeverityIdle
    /\ RaceIdle
    /\ AuxIdle

\* the rows explained: the first, the last, and one past the end
ExplainRows == {0, df.nrows - 1, df.nrows}

NextExplain ==
    \/ \E row_index \in ExplainRows : Explain(row_index)
    \/ Summarize

SpecExplain == InitExplain /\ [][NextExplain]_vars

----------------------------------------------------------------------------
(* Concurrent compute_shap_values calls on the one service instance.  A     *)
(* caller is at "check" (about to test self.shap_explainer is None), at     *)
(* "construct" (inside the if, building the explainer), at "use" (about to  *)
(* call self.shap_explainer.shap_values) or "done"; `used` is the explainer *)
(* object its shap_values call ran on (0: none yet).                        *)

Threads == 1 .. MaxThreads

Caller(pc, row_index, used) == [pc |-> pc, row_index |-> row_index, used |-> used]

\* if self.shap_explainer is None:
CheckExplainer(t) ==
    /\ threads[t].pc = "check"
    /\ threads' = [threads EXCEPT ![t].pc =
                      IF shap_explainer = None THEN "construct" ELSE "use"]
    /\ UNCHANGED <<featVars, detectVars, explainVars, sevVars, constructions,
                   explainer_id, auxVars>>

\* background_data = df_scaled.sample(...).values
\* self.shap_explainer = shap.KernelExplainer(predict_proba, background_data)
ConstructExplainer(t) ==
    /\ threads[t].pc = "construct"
    /\ shap_explainer' = KernelExplainer(df_scaled)
    /\ constructions' = constructions + 1
    /\ explainer_id' = constructions + 1
    /\ threads' = [threads EXCEPT ![t].pc = "use"]
    /\ UNCHANGED <<featVars, detectVars, shap_computations, shap_result, last_explain,
                   summary, sevVars, auxVars>>

\* shap_values = self.shap_explainer.shap_values(row_data), and the mapping
\* built from it and returned
UseExplainer(t) ==
    /\ threads[t].pc = "use"
    /\ threads' = [threads EXCEPT ![t].pc = "done", ![t].used = explainer_id]
    /\ shap_computations' =
          [shap_computations EXCEPT ![threads[t].row_index] = @ + 1]
    /\ \E contribs \in [DOMAIN df_scaled.cols -> ShapVals] :
          shap_result' = ShapDict(df_scaled, contribs)
    /\ UNCHANGED <<featVars, detectVars, shap_explainer, last_explain, summary,
                   sevVars, constructions, explainer_id, auxVars>>

InitRace ==
    /\ \E b \in ScoringBatches : PreprocessedInit(b, 2)
    /\ reconstruction_errors = [i \in 1 .. df.nrows |-> i % 2]
    /\ supervised_scores = [i \in 1 .. df.nrows |-> 10]
    /\ reconstruction_scores = Normalize(reconstruction_errors)
    /\ anomalies = DetectAnomalies(df_clean, reconstruction_errors, supervised_scores, Tenths(5))
    /\ calls = <<[threshold |-> Tenths(5), anomalies |-> anomalies]>>
    /\ last_detect = LastDetect(NoFailure, DetectRun(anomalies, NoFailure))
    /\ shap_explainer = None
    /\ shap_computations = [r \in 0 .. df.nrows |-> 0]
    /\ shap_result = EmptyDict
    /\ last_explain = NoCall
    /\ summary = NoSummary
    /\ SeverityIdle
    /\ threads \in [Threads -> { Caller("check", r, 0) : r \in 0 .. (df.nrows - 1) }]
    /\ constructions = 0
    /\ explainer_id = 0
    /\ AuxIdle

NextRace ==
    \E t \in Threads : CheckExplainer(t) \/ ConstructExplainer(t) \/ UseExplainer(t)

SpecRace == InitRace /\ [][NextRace]_vars

----------------------------------------------------------------------------
(* DummyMLService, the fallback scorer. *)

\* the numbers in a column, NaN cells left out (Series.min / max skip them)
Numbers(col) == { col.vals[r][2] : r \in { q \in DOMAIN col.vals : col.vals[q][1] = "num" } }

MinOfSet(S) == CHOOSE x \in S : \A y \in S : x <= y

MaxOfSet(S) == CHOOSE x \in S : \A y \in S : y <= x

\* (col - min) / (max - min) if max > min, else the column as it is; a cell is
\* then the exact fraction <<"minmax", value - min, max - min>>
MinMaxColumn(col) ==
    IF Numbers(col) # {} /\ MaxOfSet(Numbers(col)) > MinOfSet(Numbers(col))
    THEN Column(col.name, "float64",
                [r \in DOMAIN col.vals |->
                    IF col.vals[r][1] = "num"
                    THEN <<"minmax", col.vals[r][2] - MinOfSet(Numbers(col)),
                           MaxOfSet(Numbers(col)) - MinOfSet(Numbers(col))>>
                    ELSE col.vals[r]])
    ELSE col

\* df[numeric_cols].copy() with each column min-max scaled
DummyScaled(frame) ==
    LET numeric == SelectNumber(frame)
    IN  Frame(numeric.nrows,
              [i \in DOMAIN numeric.cols |-> MinMaxColumn(numeric.cols[i])])

\* DummyMLService.preprocess_data(df)
DummyPreprocess ==
    /\ dummy_pp = "idle"
    /\ dummy_clean' = df
    /\ dummy_scaled' = DummyScaled(df)
    /\ dummy_pp' = "returned"
    /\ UNCHANGED <<featVars, detectVars, explainVars, sevVars, raceVars, serviceVars, uploadVars, jobVars,
                   dummy_anomalies, dummy_detect, dummy_shap, count_len, count_num>>

\* np.random.uniform(0.05, 0.10), in thousandths
UniformDraws == 50 .. 100

\* mutant of NumAnomalies: rounded to the nearest integer
NumAnomalies_Round(len, u) == (len * u + 500) \div 1000

\* int(len(df_original) * u): the product truncated
NumAnomalies(len, u) == (len * u) \div 1000

\* np.random.choice(len, num, replace=False): num distinct rows, in any order
RECURSIVE Choices(_, _)
Choices(len, num) ==
    IF num = 0 THEN { <<>> }
    ELSE UNION { { Append(c, i) : i \in (1 .. len) \ Range(c) } :
                 c \in Choices(len, num - 1) }

\* mutant of ScoreDraws: np.random.uniform(0, 1.0), whatever the threshold
ScoreDraws_Unit(t) == {0, 8, 9}

\* np.random.uniform(threshold, 1.0), in tenths, for a threshold of t tenths
ScoreDraws(t) == {t} \cup { x \in {8, 9} : x > t }

\* the record built for row idx (1-based) and the score drawn for it
DummyRecord(df_original, idx, score) ==
    [ row_index            |-> idx - 1,
      anomaly_score        |-> Tenths(score),
      severity             |-> DummySeverity(Tenths(score)),
      model_prediction     |-> IF score > 7 THEN "anomaly" ELSE "suspicious",
      reconstruction_error |-> RatMul(Tenths(score), Tenths(6)),
      supervised_score     |-> RatMul(Tenths(score), Tenths(4)),
      timestamp            |-> Timestamp(RowDict(df_original, idx)),
      feature_values       |-> RowDict(df_original, idx),
      shap_values          |-> None ]

\* anomalies.sort(key=lambda x: x['anomaly_score'], reverse=True): stable
RECURSIVE SortByScore(_)
SortByScore(records) ==
    IF records = <<>> THEN <<>>
    ELSE LET k == CHOOSE i \in DOMAIN records :
                    /\ \A j \in DOMAIN records :
                          RatGE(records[i].anomaly_score, records[j].anomaly_score)
                    /\ \A j \in 1 .. (i - 1) :
                          ~RatGE(records[j].anomaly_score, records[i].anomaly_score)
         IN  <<records[k]>> \o
             SortByScore([j \in 1 .. (Len(records) - 1) |->
                             IF j < k THEN records[j] ELSE records[j + 1]])

\* DummyMLService.detect_anomalies(dummy_clean, dummy_scaled, t / 10): the
\* loop raises at the first drawn row whose invoice_date cannot be formatted
DummyDetect(t) ==
    /\ dummy_pp = "returned"
    /\ dummy_detect.outcome = "nocall"
    /\ \E num_anomalies \in { NumAnomalies(dummy_clean.nrows, u) : u \in UniformDraws } :
       \E anomaly_indices \in Choices(dummy_clean.nrows, num_anomalies) :
       \E scores \in [DOMAIN anomaly_indices -> ScoreDraws(t)] :
          LET emitted == [k \in DOMAIN anomaly_indices |->
                            DummyRecord(dummy_clean, anomaly_indices[k], scores[k])]
              raised == FirstBadTimestamp(emitted) # 0
          IN  /\ dummy_detect' =
                    [threshold |-> Tenths(t),
                     num_anomalies |-> num_anomalies,
                     outcome |-> IF raised THEN "raised" ELSE "returned"]
              /\ dummy_anomalies' = IF raised THEN <<>> ELSE SortByScore(emitted)
    /\ UNCHANGED <<featVars, detectVars, explainVars, sevVars, raceVars, serviceVars, uploadVars, jobVars,
                   dummy_clean, dummy_scaled, dummy_pp, dummy_shap, count_len, count_num>>

----------------------------------------------------------------------------
(* Specification of the fallback's anomaly count: a batch length, and the   *)
(* num_anomalies that detect_anomalies draws for it.                        *)

BatchLens == (1 .. MaxBatchLen) \cup {1000}

\* num_anomalies = int(len(df_original) * np.random.uniform(0.05, 0.10))
DrawNumAnomalies ==
    /\ count_num = -1
    /\ \E u \in UniformDraws : count_num' = NumAnomalies(count_len, u)
    /\ UNCHANGED <<featVars, detectVars, explainVars, sevVars, raceVars, serviceVars, uploadVars, jobVars,
                   dummy_clean, dummy_scaled, dummy_pp, dummy_anomalies, dummy_detect,
                   dummy_shap, count_len>>

InitDummyCount ==
    /\ PreprocessedInit(RawBatch({"invoice_amount"}, 1, 0, "int"), 2)
    /\ reconstruction_errors = <<>>
    /\ supervised_scores = <<>>
    /\ reconstruction_scores = <<>>
    /\ anomalies = <<>>
    /\ calls = <<>>
    /\ last_detect = NoDetect
    /\ ExplainIdle
    /\ SeverityIdle
    /\ RaceIdle
    /\ dummy_clean = NoFrame
    /\ dummy_scaled = NoFrame
    /\ dummy_pp = "idle"
    /\ dummy_anomalies = <<>>
    /\ dummy_detect = NoDummyDetect
    /\ dummy_shap = EmptyDict
    /\ count_len \in BatchLens
    /\ count_num = -1
    /\ ServiceLoaded
    /\ UploadIdle
    /\ JobIdle

NextDummyCount == DrawNumAnomalies

SpecDummyCount == InitDummyCount /\ [][NextDummyCount]_vars

----------------------------------------------------------------------------
(* Specification of the two scorers side by side: one raw batch given to    *)
(* the real service and to the fallback.                                    *)

FallbackBatches ==
    { RawBatch(present, nrows, 0, "int") :
        present \in { {"invoice_amount"}, {"invoice_amount", "invoice_date"} },
        nrows \in {1, DummyRows} }

InitFallback ==
    /\ n_features_in_ = 2
    /\ dummy_dtype = "uint8"
    /\ df \in FallbackBatches
    /\ df_clean = NoFrame
    /\ built_df = NoFrame
    /\ features_df = NoFrame
    /\ scaler_input = NoFrame
    /\ df_scaled = NoFrame
    /\ pp = "idle"
    /\ pp_log = {}
    /\ reconstruction_errors = [i \in 1 .. df.nrows |-> i % 2]
    /\ supervised_scores = [i \in 1 .. df.nrows |-> 5 * (i % 3)]
    /\ reconstruction_scores = <<>>
    /\ anomalies = <<>>
    /\ calls = <<>>
    /\ last_detect = NoDetect
    /\ ExplainIdle
    /\ SeverityIdle
    /\ RaceIdle
    /\ AuxIdle

NextFallback ==
    \/ Preprocess
    \/ Detect(5, NoFailure)
    \/ DummyPreprocess
    \/ DummyDetect(5)

SpecFallback == InitFallback /\ [][NextFallback]_vars

----------------------------------------------------------------------------
(* Specification of the scores the two scorers report: one raw batch, each  *)
(* scorer's preprocess_data, then its detect_anomalies at a threshold.      *)

ScoreThresholds == {0, 5, 10}

\* rows of the batch scored: the fewest of which the fallback can flag one
ScoreRows == 10

ScoreBatches == { RawBatch({"invoice_amount"}, nrows, 0, "int") : nrows \in {1, ScoreRows} }

\* the autoencoder's errors are all zero, or alternate between 0 and MaxErr; the
\* classifier's probabilities run through 0, 1/2 and 1
InitScores ==
    /\ n_features_in_ = 2
    /\ dummy_dtype = "uint8"
    /\ df \in ScoreBatches
    /\ df_clean = NoFrame
    /\ built_df = NoFrame
    /\ features_df = NoFrame
    /\ scaler_input = NoFrame
    /\ df_scaled = NoFrame
    /\ pp = "idle"
    /\ pp_log = {}
    /\ \E e \in {0, MaxErr} : reconstruction_errors = [i \in 1 .. df.nrows |-> e * (i % 2)]
    /\ supervised_scores = [i \in 1 .. df.nrows |-> 5 * (i % 3)]
    /\ reconstruction_scores = <<>>
    /\ anomalies = <<>>
    /\ calls = <<>>
    /\ last_detect = NoDetect
    /\ ExplainIdle
    /\ SeverityIdle
    /\ RaceIdle
    /\ AuxIdle

NextScores ==
    \/ Preprocess
    \/ \E t \in ScoreThresholds : Detect(t, NoFailure)
    \/ DummyPreprocess
    \/ \E t \in ScoreThresholds : DummyDetect(t)

SpecScores == InitScores /\ [][NextScores]_vars

----------------------------------------------------------------------------
(* DummyMLService.compute_shap_values, and the specification of the two     *)
(* explainers side by side on one batch.                                    *)

\* np.random.uniform(-0.5, 0.5), in tenths
DummyShapDraws == {-2, 1}

\* df_scaled.columns[:10]
FirstColumns(frame) ==
    SubSeq(frame.cols, 1, IF Len(frame.cols) < 10 THEN Len(frame.cols) ELSE 10)

\* the mapping of the fallback: one random value for each of the first ten
\* columns, then sorted by absolute value, largest first
DummyShapDict(frame, draws) ==
    SortByAbs([i \in DOMAIN FirstColumns(frame) |->
                  <<FirstColumns(frame)[i].name, draws[i]>>])

\* DummyMLService.compute_shap_values(df_scaled, row_index); the method keeps
\* no state, so the first call on a batch stands for every call
DummyExplain ==
    /\ dummy_pp = "returned"
    /\ dummy_shap = EmptyDict
    /\ \E draws \in [DOMAIN FirstColumns(dummy_scaled) -> DummyShapDraws] :
          dummy_shap' = DummyShapDict(dummy_scaled, draws)
    /\ UNCHANGED <<featVars, detectVars, explainVars, sevVars, raceVars, serviceVars, uploadVars, jobVars,
                   dummy_clean, dummy_scaled, dummy_pp, dummy_anomalies, dummy_detect,
                   count_len, count_num>>

\* a one-row batch with every column of numeric_cols and is_prorated as 0/1:
\* eleven numeric columns
WideBatch ==
    Frame(1, [i \in 1 .. (Len(numeric_cols) + 1) |->
                 IF i <= Len(numeric_cols)
                 THEN Column(<<numeric_cols[i]>>, "int64", <<Num(10 * i + 1)>>)
                 ELSE Column(<<"is_prorated">>, "int64", <<Num(1)>>)])

ShapBatches == { RawBatch({"invoice_amount"}, 1, 0, "int"), WideBatch }

InitShap ==
    /\ \E b \in ShapBatches : PreprocessedInit(b, 2)
    /\ reconstruction_errors = <<>>
    /\ supervised_scores = <<>>
    /\ reconstruction_scores = <<>>
    /\ anomalies = <<>>
    /\ calls = <<>>
    /\ last_detect = NoDetect
    /\ shap_explainer = None
    /\ shap_computations = [r \in 0 .. df.nrows |-> 0]
    /\ shap_result = EmptyDict
    /\ last_explain = NoCall
    /\ summary = NoSummary
    /\ SeverityIdle
    /\ RaceIdle
    /\ AuxIdle

NextShap ==
    \/ Explain(0)
    \/ DummyPreprocess
    \/ DummyExplain

SpecShap == InitShap /\ [][NextShap]_vars

----------------------------------------------------------------------------
(* The MLService singleton: MLService.__new__, __init__, load_models, the   *)
(* module-level ml_service = MLService() and get_ml_service().              *)

\* mutant of NeedsLoad: __init__ loads the models on every construction
NeedsLoad_Always(loaded) == TRUE

\* if not self._models_loaded:
NeedsLoad(loaded) == ~loaded

\* how far a load_models run gets: 0, 1 or 2 of scaler, classifier and
\* autoencoder assigned before it raises, or all 3 and it returns
LoadOutcomes == 0 .. 3

\* one MLService() evaluation whose load_models run, if __init__ makes one,
\* gets as far as loaded_upto; `fresh` numbers the object __new__ creates when
\* cls._instance is None
Construct(fresh, loaded_upto) ==
    LET loads  == NeedsLoad(_models_loaded)
        loaded == loads /\ loaded_upto = 3
    IN  /\ _instance' = IF _instance = 0 THEN fresh ELSE _instance
        /\ load_count' = IF loads THEN load_count + 1 ELSE load_count
        /\ models' = IF loads
                     THEN [i \in 1 .. 3 |-> IF i <= loaded_upto THEN load_count + 1
                                            ELSE models[i]]
                     ELSE models
        /\ shap_explainer' = IF loaded THEN None ELSE shap_explainer
        /\ explainer_id' = IF loaded THEN 0 ELSE explainer_id
        /\ _models_loaded' = (_models_loaded \/ loaded)
        /\ UNCHANGED <<featVars, detectVars, shap_computations, shap_result, last_explain,
                       summary, sevVars, threads, constructions, dummyVars, uploadVars, jobVars>>

\* whether that evaluation raises
ConstructRaises(loaded_upto) == NeedsLoad(_models_loaded) /\ loaded_upto < 3

\* the load outcomes to consider for an evaluation
OutcomesNow == IF NeedsLoad(_models_loaded) THEN LoadOutcomes ELSE {3}

\* importing the module: ml_service = MLService(); a load error ends the import
ImportModule ==
    /\ module_state = "importing"
    /\ \E loaded_upto \in OutcomesNow :
          /\ Construct(1, loaded_upto)
          /\ IF ConstructRaises(loaded_upto)
             THEN module_state' = "failed" /\ ml_service' = ml_service
             ELSE module_state' = "imported" /\ ml_service' = _instance'
    /\ UNCHANGED <<yielded, service_calls>>

\* a caller evaluates MLService()
ConstructService ==
    /\ module_state = "imported"
    /\ service_calls < MaxServiceCalls
    /\ service_calls' = service_calls + 1
    /\ \E loaded_upto \in OutcomesNow :
          /\ Construct(service_calls + 2, loaded_upto)
          /\ yielded' = IF ConstructRaises(loaded_upto) THEN yielded
                        ELSE yielded \cup {_instance'}
    /\ UNCHANGED <<module_state, ml_service>>

\* a caller evaluates get_ml_service()
GetService ==
    /\ module_state = "imported"
    /\ service_calls < MaxServiceCalls
    /\ service_calls' = service_calls + 1
    /\ yielded' = yielded \cup {ml_service}
    /\ UNCHANGED <<featVars, detectVars, explainVars, sevVars, raceVars, dummyVars,
                   uploadVars, jobVars, module_state, _instance, _models_loaded, load_count,
                   models, ml_service>>

----------------------------------------------------------------------------
(* Specification of the service's life: the import, then constructions,     *)
(* get_ml_service calls and the four methods on one batch.                  *)

InitService ==
    /\ n_features_in_ = 1
    /\ dummy_dtype = "uint8"
    /\ df = RawBatch({"invoice_amount"}, 1, 0, "int")
    /\ df_clean = NoFrame
    /\ built_df = NoFrame
    /\ features_df = NoFrame
    /\ scaler_input = NoFrame
    /\ df_scaled = NoFrame
    /\ pp = "idle"
    /\ pp_log = {}
    /\ reconstruction_errors = [i \in 1 .. df.nrows |-> i % 2]
    /\ supervised_scores = [i \in 1 .. df.nrows |-> 10]
    /\ reconstruction_scores = <<>>
    /\ anomalies = <<>>
    /\ calls = <<>>
    /\ last_detect = NoDetect
    /\ shap_explainer = None
    /\ shap_computations = [r \in 0 .. df.nrows |-> 0]
    /\ shap_result = EmptyDict
    /\ last_explain = NoCall
    /\ summary = NoSummary
    /\ SeverityIdle
    /\ RaceIdle
    /\ DummyIdle
    /\ module_state = "importing"
    /\ _instance = 0
    /\ _models_loaded = FALSE
    /\ load_count = 0
    /\ models = <<0, 0, 0>>
    /\ ml_service = 0
    /\ yielded = {}
    /\ service_calls = 0
    /\ UploadIdle
    /\ JobIdle

NextService ==
    \/ ImportModule
    \/ ConstructService
    \/ GetService
    \/ Preprocess
    \/ Detect(5, NoFailure)
    \/ \E row_index \in ExplainRows : Explain(row_index)
    \/ Summarize

SpecService == InitService /\ [][NextService]_vars

----------------------------------------------------------------------------
(* Specification of a session: one loaded service handed one raw batch      *)
(* after another, each preprocessed, scored and explained.                  *)

SessionBatches ==
    { RawBatch({"invoice_amount"}, nrows, 0, "int") : nrows \in 1 .. MaxRows }

\* the caller turns to the raw batch b (the same as before, or another): the
\* results of the previous batch are dropped, the service is as it was
NewBatch(b) ==
    /\ pp # "idle"
    /\ df' = b
    /\ df_clean' = NoFrame
    /\ built_df' = NoFrame
    /\ features_df' = NoFrame
    /\ scaler_input' = NoFrame
    /\ df_scaled' = NoFrame
    /\ pp' = "idle"
    /\ reconstruction_errors' = [i \in 1 .. b.nrows |-> i % 2]
    /\ supervised_scores' = [i \in 1 .. b.nrows |-> 10]
    /\ reconstruction_scores' = <<>>
    /\ anomalies' = <<>>
    /\ calls' = <<>>
    /\ last_detect' = NoDetect
    /\ shap_computations' = [r \in 0 .. b.nrows |-> 0]
    /\ UNCHANGED <<n_features_in_, dummy_dtype, pp_log, shap_explainer, shap_result,
                   last_explain, summary, sevVars, raceVars, auxVars>>

InitSession ==
    /\ n_features_in_ = 1
    /\ dummy_dtype = "uint8"
    /\ df \in SessionBatches
    /\ df_clean = NoFrame
    /\ built_df = NoFrame
    /\ features_df = NoFrame
    /\ scaler_input = NoFrame
    /\ df_scaled = NoFrame
    /\ pp = "idle"
    /\ pp_log = {}
    /\ reconstruction_errors = [i \in 1 .. df.nrows |-> i % 2]
    /\ supervised_scores = [i \in 1 .. df.nrows |-> 10]
    /\ reconstruction_scores = <<>>
    /\ anomalies = <<>>
    /\ calls = <<>>
    /\ last_detect = NoDetect
    /\ shap_explainer = None
    /\ shap_computations = [r \in 0 .. df.nrows |-> 0]
    /\ shap_result = EmptyDict
    /\ last_explain = NoCall
    /\ summary = NoSummary
    /\ SeverityIdle
    /\ RaceIdle
    /\ AuxIdle

NextSession ==
    \/ \E b \in SessionBatches : NewBatch(b)
    \/ Preprocess
    \/ Detect(5, NoFailure)
    \/ Explain(0)

SpecSession == InitSession /\ [][NextSession]_vars

----------------------------------------------------------------------------
(* POST /upload (process/upload.py upload_file). *)

\* what the bytes sent are: nothing at all, a header line and no data row,
\* text pandas cannot tokenize, or a header and data rows
Contents == {"zero_bytes", "header_only", "malformed", "rows"}

\* what the try block raises before anything is saved, by the file's content:
\* pd.read_csv raises EmptyDataError or ParserError; df.empty raises the
\* HTTPException(400) of the emptiness check
RaisedByParsing(content) ==
    IF content = "zero_bytes" THEN "EmptyDataError"
    ELSE IF content = "malformed" THEN "ParserError"
    ELSE IF content = "header_only" THEN "HTTPException"
    ELSE "none"

\* the except clauses, in order: EmptyDataError, ParserError, then Exception,
\* which every other exception class is an instance of, HTTPException included
ExceptClause(exception) ==
    IF exception = "EmptyDataError"
    THEN [status |-> 400, detail |-> "The uploaded CSV file is empty"]
    ELSE IF exception = "ParserError"
    THEN [status |-> 400, detail |-> "Invalid CSV file format"]
    ELSE [status |-> 500, detail |-> "Error processing file"]

\* one request: the filename has the .csv suffix or not, the content, and
\* whether storage_service.save_file and db.commit succeed when reached
UploadFile(csv_name, content, save_ok, commit_ok) ==
    /\ upload_count < MaxUploads
    /\ upload_count' = upload_count + 1
    /\ LET raised == IF RaisedByParsing(content) # "none" THEN RaisedByParsing(content)
                     ELSE IF ~save_ok THEN "ValueError"
                     ELSE IF ~commit_ok THEN "SQLAlchemyError"
                     ELSE "none"
           saved == csv_name /\ RaisedByParsing(content) = "none" /\ save_ok
           persisted == saved /\ commit_ok
           response == IF ~csv_name
                       THEN [status |-> 400, detail |-> "Only CSV files are supported"]
                       ELSE IF raised # "none" THEN ExceptClause(raised)
                       ELSE [status |-> 200, detail |-> "ok"]
       IN  /\ last_upload' =
                 [csv_name |-> csv_name, content |-> content, status |-> response.status,
                  detail |-> response.detail, saved |-> saved, persisted |-> persisted]
           /\ stored_files' = IF saved THEN stored_files + 1 ELSE stored_files
           /\ upload_rows' = IF persisted THEN upload_rows + 1 ELSE upload_rows
    /\ UNCHANGED <<featVars, detectVars, explainVars, sevVars, raceVars, dummyVars,
                   serviceVars, jobVars>>

InitUpload ==
    /\ PreprocessedInit(RawBatch({"invoice_amount"}, 1, 0, "int"), 2)
    /\ reconstruction_errors = <<>>
    /\ supervised_scores = <<>>
    /\ reconstruction_scores = <<>>
    /\ anomalies = <<>>
    /\ calls = <<>>
    /\ last_detect = NoDetect
    /\ ExplainIdle
    /\ SeverityIdle
    /\ RaceIdle
    /\ AuxIdle

NextUpload ==
    \E csv_name \in BOOLEAN, content \in Contents, save_ok \in BOOLEAN,
       commit_ok \in BOOLEAN : UploadFile(csv_name, content, save_ok, commit_ok)

SpecUpload == InitUpload /\ [][NextUpload]_vars


----------------------------------------------------------------------------
(* process.py: the in-memory job store, POST /process/{upload_id},          *)
(* GET /process/status/{job_id} and the task _simulate_ml_processing.  The  *)
(* event loop runs one coroutine at a time, so a coroutine's code between   *)
(* two awaits is one step.  A job's id is its position in job_storage       *)
(* (uuid4 never repeats); a task is at "start" (created, not yet run), at   *)
(* "sleep" in the loop round `stage`, or "done".                            *)

MaxJobs == 2

UploadIds == {"u1", "u2"}

\* mutant of stages: two progress values swapped
stages_Swapped == <<20, 70, 40, 90, 100>>

\* the progress values of the stages list
stages == <<20, 40, 70, 90, 100>>

Task(pc, stage) == [pc |-> pc, stage |-> stage]

\* the ids a poll may ask for: those of the jobs that can exist, and one more
JobIds == 1 .. (MaxJobs + 1)

\* POST /process/{upload_id}: the job is stored as queued and its task created
start_processing(upload_id) ==
    /\ Len(job_storage) < MaxJobs
    /\ job_storage' = Append(job_storage,
                             [upload_id |-> upload_id, status |-> "queued", progress |-> 0,
                              anomalies_found |-> 0, error_message |-> ""])
    /\ tasks' = Append(tasks, Task("start", 0))
    /\ UNCHANGED <<featVars, detectVars, explainVars, sevVars, raceVars, dummyVars,
                   serviceVars, uploadVars, last_poll>>

\* GET /process/status/{job_id}
get_job_status(job_id) ==
    /\ last_poll' =
          IF job_id \notin DOMAIN job_storage
          THEN [job_id |-> job_id, code |-> 404, status |-> "none", progress |-> -1]
          ELSE [job_id |-> job_id, code |-> 200, status |-> job_storage[job_id].status,
                progress |-> job_storage[job_id].progress]
    /\ UNCHANGED <<featVars, detectVars, explainVars, sevVars, raceVars, dummyVars,
                   serviceVars, uploadVars, job_storage, tasks>>

\* the task's first run: job["status"] = "processing", up to the first sleep
TaskBegin(job_id) ==
    /\ job_id \in DOMAIN tasks
    /\ tasks[job_id].pc = "start"
    /\ job_storage' = [job_storage EXCEPT ![job_id].status = "processing"]
    /\ tasks' = [tasks EXCEPT ![job_id] = Task("sleep", 1)]
    /\ UNCHANGED <<featVars, detectVars, explainVars, sevVars, raceVars, dummyVars,
                   serviceVars, uploadVars, last_poll>>

\* a sleep returns: job["progress"] = progress, then the next round's sleep or,
\* after the last round, the completion (lines 146-152 hold no await)
TaskStage(job_id) ==
    /\ job_id \in DOMAIN tasks
    /\ tasks[job_id].pc = "sleep"
    /\ LET stage == tasks[job_id].stage
       IN  IF stage < Len(stages)
           THEN /\ job_storage' = [job_storage EXCEPT ![job_id].progress = stages[stage]]
                /\ tasks' = [tasks EXCEPT ![job_id] = Task("sleep", stage + 1)]
           ELSE /\ job_storage' = [job_storage EXCEPT ![job_id] =
                                      [@ EXCEPT !.status = "completed", !.progress = 100,
                                                !.anomalies_found = 23]]
                /\ tasks' = [tasks EXCEPT ![job_id] = Task("done", stage)]
    /\ UNCHANGED <<featVars, detectVars, explainVars, sevVars, raceVars, dummyVars,
                   serviceVars, uploadVars, last_poll>>

\* an exception is raised inside the try block while the task is in the loop:
\* except Exception marks the job failed
TaskFail(job_id) ==
    /\ job_id \in DOMAIN tasks
    /\ tasks[job_id].pc = "sleep"
    /\ job_storage' = [job_storage EXCEPT ![job_id] =
                          [@ EXCEPT !.status = "failed", !.error_message = "str(e)",
                                    !.progress = 0]]
    /\ tasks' = [tasks EXCEPT ![job_id] = Task("done", tasks[job_id].stage)]
    /\ UNCHANGED <<featVars, detectVars, explainVars, sevVars, raceVars, dummyVars,
                   serviceVars, uploadVars, last_poll>>

InitJobs ==
    /\ PreprocessedInit(RawBatch({"invoice_amount"}, 1, 0, "int"), 2)
    /\ reconstruction_errors = <<>>
    /\ supervised_scores = <<>>
    /\ reconstruction_scores = <<>>
    /\ anomalies = <<>>
    /\ calls = <<>>
    /\ last_detect = NoDetect
    /\ ExplainIdle
    /\ SeverityIdle
    /\ RaceIdle
    /\ AuxIdle

NextJobs ==
    \/ \E upload_id \in UploadIds : start_processing(upload_id)
    \/ \E job_id \in JobIds : get_job_status(job_id)
    \/ \E job_id \in JobIds : TaskBegin(job_id)
    \/ \E job_id \in JobIds : TaskStage(job_id)
    \/ \E job_id \in JobIds : TaskFail(job_id)

SpecJobs == InitJobs /\ [][NextJobs]_vars

----------------------------------------------------------------------------
(* Claims about feature engineering (checked under SpecFeat). *)

\* the table _engineer_features built before it reconciled the width
Built == built_df

Preprocessed == pp # "idle"

\* C1: for every raw batch, whatever optional source columns it holds and
\* however many categories they hold, the table _engineer_features returns
\* has exactly n_features_in_ columns.
C1_EngineeredWidth ==
    Preprocessed => Width(features_df) = n_features_in_

\* a batch with a categorical column that yields dummies, without some of the
\* numeric columns, whose built width differs from the scaler's
C1_Witness ==
    /\ Preprocessed
    /\ HasColumn(df, <<"currency">>) /\ ~HasColumn(df, <<"invoice_amount">>)
    /\ \E i \in DOMAIN Built.cols : Built.cols[i].name[1] = "currency"
    /\ Width(Built) # n_features_in_
    /\ Width(features_df) = n_features_in_

\* C2: the matrix preprocess_data hands to scaler.transform (the engineered
\* columns that survive the numeric-dtype selection) has exactly
\* n_features_in_ columns, so the transform never raises on a width mismatch.
C2_ScalerInputWidth ==
    Preprocessed => (Width(scaler_input) = n_features_in_ /\ pp = "returned")

\* C3: when k < n_features_in_ columns were built, they are kept unchanged in
\* positions 1..k and positions k+1..n_features_in_ hold columns that are 0 in
\* every row.
C3_ZeroPadding ==
    (Preprocessed /\ Width(Built) < n_features_in_) =>
        /\ \A i \in 1 .. Width(Built) :
              i \in DOMAIN features_df.cols /\ features_df.cols[i] = Built.cols[i]
        /\ \A i \in (Width(Built) + 1) .. n_features_in_ :
              /\ i \in DOMAIN features_df.cols
              /\ Len(features_df.cols[i].vals) = df.nrows
              /\ \A r \in 1 .. df.nrows : features_df.cols[i].vals[r] = Num(0)

\* a batch of several rows that built at least one column, fewer than the
\* scaler expects
C3_Witness ==
    /\ Preprocessed
    /\ df.nrows >= 2
    /\ Width(Built) >= 1
    /\ Width(Built) < n_features_in_
    /\ features_df.cols[n_features_in_].name = <<"feature", n_features_in_ - 1>>

\* position of a built column in construction order: the fixed numeric
\* columns, the date deltas, the one-hot columns per categorical column in list
\* order, is_prorated, the ratio features
PositionIn(seq, x) == CHOOSE i \in DOMAIN seq : seq[i] = x

ConstructionRank(name) ==
    IF Len(name) = 2
    THEN <<3, PositionIn(categorical_cols, name[1]), name[2]>>
    ELSE IF name[1] \in Range(numeric_cols)
    THEN <<1, PositionIn(numeric_cols, name[1]), 0>>
    ELSE IF name[1] = "payment_delay_days" THEN <<2, 1, 0>>
    ELSE IF name[1] = "due_delay_days" THEN <<2, 2, 0>>
    ELSE IF name[1] = "is_prorated" THEN <<4, 1, 0>>
    ELSE IF name[1] = "tax_rate" THEN <<5, 1, 0>>
    ELSE <<5, 2, 0>>

RankBefore(a, b) ==
    \/ a[1] < b[1]
    \/ a[1] = b[1] /\ a[2] < b[2]
    \/ a[1] = b[1] /\ a[2] = b[2] /\ a[3] < b[3]

\* C4: when more than n_features_in_ columns were built, the result is exactly
\* the first n_features_in_ of them in construction order; the later ones are
\* dropped.
C4_TruncateFirstW ==
    (Preprocessed /\ Width(Built) > n_features_in_) =>
        /\ features_df.cols = SubSeq(Built.cols, 1, n_features_in_)
        /\ \A i, j \in DOMAIN Built.cols :
              i < j => RankBefore(ConstructionRank(Built.cols[i].name),
                                  ConstructionRank(Built.cols[j].name))
        /\ \A i \in DOMAIN features_df.cols :
              \A j \in (n_features_in_ + 1) .. Width(Built) :
                 RankBefore(ConstructionRank(features_df.cols[i].name),
                            ConstructionRank(Built.cols[j].name))

\* a batch whose one-hot columns straddle the cut: one is kept, a later column
\* is dropped
C4_Witness ==
    /\ Preprocessed
    /\ Width(Built) > n_features_in_
    /\ Len(features_df.cols[n_features_in_].name) = 2
    /\ Built.cols[Width(Built)].name = <<"refund_rate">>

----------------------------------------------------------------------------
(* Claims about scoring (checked under SpecDetect). *)

\* the records returned by call c
RecordsOf(c) == Range(calls[c].anomalies)

\* every record returned by a detect_anomalies call made so far
Returned == UNION { RecordsOf(c) : c \in DOMAIN calls }

\* the rows (1-based) call c returned
RowsOf(c) == { rec.row_index + 1 : rec \in RecordsOf(c) }

SeverityRank(sev) == IF sev = "high" THEN 3 ELSE IF sev = "medium" THEN 2 ELSE 1

\* C5: in every record detect_anomalies returns, severity is a function of
\* anomaly_score alone: "high" iff score >= 0.8, "medium" iff 0.5 <= score < 0.8,
\* "low" iff score < 0.5 (the boundaries belong to the higher tier), and it is
\* monotonic in the score.
C5_SeverityOfScore ==
    /\ \A rec \in Returned :
          LET n == rec.anomaly_score[1]
              d == rec.anomaly_score[2]
          IN  /\ rec.severity \in {"high", "medium", "low"}
              /\ rec.severity = "high" <=> 10 * n >= 8 * d
              /\ rec.severity = "medium" <=> (10 * n >= 5 * d /\ 10 * n < 8 * d)
              /\ rec.severity = "low" <=> 10 * n < 5 * d
    /\ \A a, b \in Returned :
          a.anomaly_score[1] * b.anomaly_score[2] <= b.anomaly_score[1] * a.anomaly_score[2]
              => SeverityRank(a.severity) <= SeverityRank(b.severity)

\* a call that returned a record scored exactly 0.8, which is "high", and a
\* record below 0.5, which is "low"
C5_Witness ==
    \E c \in DOMAIN calls :
        /\ \E rec \in RecordsOf(c) :
              RatEQ(rec.anomaly_score, Tenths(8)) /\ rec.severity = "high"
        /\ \E rec \in RecordsOf(c) :
              ~RatGE(rec.anomaly_score, Tenths(5)) /\ rec.severity = "low"

\* 0.6 * r + 0.4 * s >= T for a normalized score r, a probability s in tenths
\* and a threshold T, in integers
Qualifies(r, s, T) == (60 * r[1] + 4 * s * r[2]) * T[2] >= 100 * r[2] * T[1]

\* C7: for fixed normalized reconstruction scores r and supervised
\* probabilities s, the rows detect_anomalies returns at threshold T are
\* exactly { i : 0.6 * r[i] + 0.4 * s[i] >= T }, each once.
C7_DetectionSet ==
    \A c \in DOMAIN calls :
        /\ RowsOf(c) = { i \in DOMAIN supervised_scores :
                            Qualifies(reconstruction_scores[i], supervised_scores[i],
                                      calls[c].threshold) }
        /\ Len(calls[c].anomalies) = Cardinality(RowsOf(c))

\* a call that returned a row whose combined score equals the threshold and
\* left another row out
C7_Witness ==
    \E c \in DOMAIN calls :
        /\ \E rec \in RecordsOf(c) : RatEQ(rec.anomaly_score, calls[c].threshold)
        /\ \E i \in DOMAIN supervised_scores : i \notin RowsOf(c)
        /\ calls[c].threshold[1] > 0

\* C8: for the same batch and thresholds T1 <= T2, the rows returned at T2 are
\* a subset of the rows returned at T1.
C8_ThresholdMonotone ==
    \A c1, c2 \in DOMAIN calls :
        RatGE(calls[c2].threshold, calls[c1].threshold) => RowsOf(c2) \subseteq RowsOf(c1)

\* two calls, the second at a higher threshold, that lost a row and kept one
C8_Witness ==
    /\ Len(calls) = 2
    /\ ~RatGE(calls[1].threshold, calls[2].threshold)
    /\ RowsOf(2) # {}
    /\ RowsOf(2) # RowsOf(1)

Detected == calls # <<>>

MaxError == MaxOf(reconstruction_errors, Len(reconstruction_errors))

\* the normalized score of row i is the number q (an integer)
ScoreIs(i, q) ==
    reconstruction_scores[i][1] = q * reconstruction_scores[i][2]

\* what C9 states of every batch but the all-zero one
C9_Common ==
    /\ DOMAIN reconstruction_scores = DOMAIN reconstruction_errors
    /\ \A i \in DOMAIN reconstruction_scores :
          /\ reconstruction_scores[i][2] > 0
          /\ reconstruction_scores[i][1] >= 0
          /\ reconstruction_scores[i][1] <= reconstruction_scores[i][2]
          /\ MaxError > 0 =>
                reconstruction_scores[i][1] * MaxError
                    = reconstruction_errors[i] * reconstruction_scores[i][2]
    /\ (MaxError > 0 /\ \A i \in DOMAIN reconstruction_errors :
                            reconstruction_errors[i] = MaxError)
          => \A i \in DOMAIN reconstruction_scores : ScoreIs(i, 1)
    /\ MaxError = 0 => \A i \in DOMAIN reconstruction_scores : ScoreIs(i, 0)

\* C9 as stated: the errors are divided by the batch maximum only when it is
\* > 0; equal nonzero errors all normalize to 1, all-zero errors to 0, and in
\* every case the scores lie in [0,1] with the maximum-error row at 1.
C9_AsStated ==
    Detected =>
        /\ C9_Common
        /\ \A i \in DOMAIN reconstruction_scores :
              reconstruction_errors[i] = MaxError => ScoreIs(i, 1)

\* C9 (amended): as stated, but the maximum-error row is at 1 only when the
\* batch maximum is > 0; when every raw error is 0 every score, the
\* maximum-error row's too, is 0.
C9_Normalization ==
    Detected =>
        /\ C9_Common
        /\ MaxError > 0 =>
              \A i \in DOMAIN reconstruction_scores :
                  reconstruction_errors[i] = MaxError => ScoreIs(i, 1)

\* a scored batch of several rows whose raw errors are all 0
C9_Witness ==
    /\ Detected
    /\ Len(reconstruction_errors) >= 2
    /\ MaxError = 0
    /\ \A i \in DOMAIN reconstruction_scores : ScoreIs(i, 0)

----------------------------------------------------------------------------
(* Claim about the severity mappings (checked under SpecSeverity). *)

\* C6: the severity assigned by the real scorer, the severity assigned by the
\* fallback scorer and the severity_level of the Anomaly model are the same
\* value for every anomaly score in [0,1].
C6_SeverityAgree ==
    /\ (sev_real # Unset /\ sev_dummy # Unset) => sev_real = sev_dummy
    /\ (sev_real # Unset /\ sev_level # Unset) => sev_real = sev_level
    /\ (sev_dummy # Unset /\ sev_level # Unset) => sev_dummy = sev_level

\* the three mappings applied to a score of exactly 0.8
C6_Witness ==
    /\ RatEQ(sev_score, Tenths(8))
    /\ sev_real = "high" /\ sev_dummy = "high" /\ sev_level = "high"

----------------------------------------------------------------------------
(* Claim about explanation (checked under SpecExplain). *)

\* C10: within one batch-session, over any sequence of explain requests, the
\* attribution of a row_index is computed at most once: later requests for
\* the same row do not invoke the attribution estimator again.
C10_ComputedOnce ==
    \A row_index \in DOMAIN shap_computations :
        row_index < df_scaled.nrows => shap_computations[row_index] <= 1

----------------------------------------------------------------------------
(* Claims about concurrent explanation (checked under SpecRace). *)

\* C11: when several callers enter compute_shap_values while the explainer is
\* unset, one explainer is constructed in all, and every caller that has run
\* its shap_values call ran it on that one explainer.
C11_ConstructedOnce ==
    /\ constructions <= 1
    /\ \A t \in DOMAIN threads : threads[t].pc = "done" => threads[t].used = 1

----------------------------------------------------------------------------
(* Claims about failing explanations (checked under SpecExplain). *)

ExplainFailed == last_explain.failure \in {"explainer", "estimator", "row"}

\* C12: when anything raised inside a compute_shap_values call, the call
\* returned (it did not raise) and returned the empty mapping; a summary
\* generated from an empty mapping is the fixed message; and the list
\* detect_anomalies returned earlier is as it was returned.
C12_FailureContained ==
    /\ ExplainFailed =>
          /\ last_explain.outcome = "returned"
          /\ shap_result = EmptyDict
          /\ anomalies = calls[Len(calls)].anomalies
          /\ \A k \in DOMAIN anomalies : anomalies[k].shap_values = None
    /\ (summary # NoSummary /\ summary.shap_values = EmptyDict) =>
          summary.text = SummaryUnavailable

\* each kind of failure has happened with the unavailable-message summary
\* generated for it
C12_Witness ==
    /\ ExplainFailed
    /\ last_explain.failure = "estimator"
    /\ shap_result = EmptyDict
    /\ summary.text = SummaryUnavailable
    /\ anomalies # <<>>

----------------------------------------------------------------------------
(* Claims about failing detection (checked under SpecDetectFail). *)

\* C13: a detect_anomalies call in which a model failed (at the batch
\* prediction, at predict_proba, or at the label prediction of any record)
\* ended by raising, and its caller received no record from it, whatever had
\* been emitted before the failure.
C13_DetectAtomic ==
    last_detect.failure # NoFailure =>
        /\ last_detect.outcome = "raised"
        /\ last_detect.received = <<>>

\* a call failed at the label prediction of its second record, after one
\* record had been emitted
C13_Witness ==
    /\ last_detect.failure = [stage |-> "predict", at |-> 2]
    /\ last_detect.outcome = "raised"
    /\ Len(last_detect.emitted) = 1
    /\ last_detect.received = <<>>

----------------------------------------------------------------------------
(* Claims about process_upload (checked under SpecProcessUpload). *)

\* C14: in every record process_upload returns, feature_values holds, column
\* by column, the raw cells of the caller's input row at row_index (not the
\* scaled cells, not cells changed by preprocessing such as date parsing).
C14_RawFeatureValues ==
    \A rec \in Returned : rec.feature_values = RowDict(df, rec.row_index + 1)

----------------------------------------------------------------------------
(* Claims about the fallback scorer (checked under SpecDummyCount and       *)
(* SpecFallback).                                                           *)

C16_SameShape ==
    /\ (pp = "returned" /\ dummy_pp = "returned") =>
          /\ dummy_scaled.nrows = df_scaled.nrows
          /\ Width(dummy_scaled) = Width(df_scaled)
    /\ \A r \in Range(anomalies), d \in Range(dummy_anomalies) : DOMAIN d = DOMAIN r

----------------------------------------------------------------------------
(* Claims about the singleton (checked under SpecService). *)

\* C19: over any sequence of MLService() and get_ml_service() calls every
\* call yields the same object and load_models has run exactly once; the
\* scaler, classifier and autoencoder are the ones that first load created,
\* whatever preprocess, detect, explain and summarize calls have run.
C19_Singleton ==
    /\ Cardinality(yielded) <= 1
    /\ load_count <= 1
    /\ yielded # {} => load_count = 1
    /\ _models_loaded => models = <<1, 1, 1>>

\* two or more calls made, around a preprocess, a detect, an explain and a
\* summarize call
C19_Witness ==
    /\ service_calls >= 2
    /\ yielded = {1}
    /\ calls # <<>>
    /\ last_explain.failure = "none"
    /\ summary # NoSummary
    /\ load_count = 1

----------------------------------------------------------------------------
(* Claims about a session (checked under SpecSession). *)

C20_BackgroundOfBatch ==
    last_explain.failure = "none" => last_explain.background = last_explain.batch

----------------------------------------------------------------------------
(* Claims about POST /upload (checked under SpecUpload). *)

\* C18: an upload of a .csv file whose content parses to an empty table (no
\* data row) is answered with HTTP 400 and "The uploaded CSV file is empty",
\* with no file saved and no Upload row persisted by it.
C18_EmptyIsClientError ==
    (last_upload.csv_name /\ last_upload.content \in {"zero_bytes", "header_only"}) =>
        /\ last_upload.status = 400
        /\ last_upload.detail = "The uploaded CSV file is empty"
        /\ ~last_upload.saved
        /\ ~last_upload.persisted

----------------------------------------------------------------------------
(* Claims about the mappings compute_shap_values returns (checked under     *)
(* SpecShap).                                                               *)

NonIncreasingAbs(mapping) ==
    \A i, j \in DOMAIN mapping : i < j => Abs(mapping[i][2]) >= Abs(mapping[j][2])

KeysOf(mapping) == { mapping[i][1] : i \in DOMAIN mapping }

\* C21: every non-empty mapping compute_shap_values returned lists its
\* features in non-increasing order of absolute contribution; the real scorer's
\* has one entry per scaled column, the fallback's one entry per column among
\* the first min(10, number of scaled columns).
C21_ShapOrder ==
    /\ shap_result # EmptyDict =>
          /\ NonIncreasingAbs(shap_result)
          /\ Len(shap_result) = Width(df_scaled)
          /\ KeysOf(shap_result) = Names(df_scaled)
    /\ dummy_shap # EmptyDict =>
          LET n == IF Width(dummy_scaled) < 10 THEN Width(dummy_scaled) ELSE 10
          IN  /\ NonIncreasingAbs(dummy_shap)
              /\ Len(dummy_shap) = n
              /\ KeysOf(dummy_shap) = { dummy_scaled.cols[i].name : i \in 1 .. n }

\* both scorers returned a mapping with contributions of different size, the
\* fallback for a batch of eleven scaled columns
C21_Witness ==
    /\ shap_result # EmptyDict
    /\ Abs(shap_result[1][2]) > Abs(shap_result[Len(shap_result)][2])
    /\ Width(dummy_scaled) = 11
    /\ Len(dummy_shap) = 10
    /\ Abs(dummy_shap[1][2]) > Abs(dummy_shap[10][2])

----------------------------------------------------------------------------
(* Claims about the records of the two scorers (checked under SpecScores).  *)

InRange(score, threshold) == RatGE(score, threshold) /\ RatGE(Tenths(10), score)

\* C22: for every threshold T in [0, 1], each record detect_anomalies
\* returned, in the real and in the fallback scorer, has
\* T <= anomaly_score <= 1.
C22_ScoreRange ==
    /\ \A c \in DOMAIN calls : \A k \in DOMAIN calls[c].anomalies :
          InRange(calls[c].anomalies[k].anomaly_score, calls[c].threshold)
    /\ \A k \in DOMAIN dummy_anomalies :
          InRange(dummy_anomalies[k].anomaly_score, dummy_detect.threshold)

\* the real scorer returned a record of score 1 at T = 1 and, at T = 0, a
\* record of score 0; the fallback returned a record above its threshold 1/2
C22_Witness ==
    /\ \E c \in DOMAIN calls :
          /\ calls[c].threshold = Tenths(10)
          /\ \E k \in DOMAIN calls[c].anomalies :
                RatEQ(calls[c].anomalies[k].anomaly_score, Tenths(10))
    /\ \E c \in DOMAIN calls :
          /\ calls[c].threshold = Tenths(0)
          /\ \E k \in DOMAIN calls[c].anomalies :
                RatEQ(calls[c].anomalies[k].anomaly_score, Tenths(0))
    /\ dummy_detect.threshold = Tenths(5)
    /\ \E k \in DOMAIN dummy_anomalies : dummy_anomalies[k].anomaly_score = Tenths(9)

----------------------------------------------------------------------------
(* Claims about the ratio features (checked under SpecRatio). *)

\* a cell holding a finite number: a number, or a quotient whose denominator
\* is not zero
IsFinite(cell) == cell[1] \in {"num", "ratio", "tiny"}

RatioNames == { <<"tax_rate">>, <<"refund_rate">> }

\* C23: for every row, the derived features tax_rate and refund_rate that
\* _engineer_features builds are finite numbers; where the quotient is not
\* finite (an operand missing, or a denominator that is exactly zero after
\* adding epsilon) the value is 0.
C23_RatiosFinite ==
    pp # "idle" =>
        \A i \in DOMAIN built_df.cols :
            built_df.cols[i].name \in RatioNames =>
                \A r \in DOMAIN built_df.cols[i].vals : IsFinite(built_df.cols[i].vals[r])

----------------------------------------------------------------------------
(* Claims about the two pipelines side by side (checked under SpecFallback). *)

\* the timestamp of a record of a batch: the row's invoice date when the batch
\* has the column, the current time otherwise
TimestampOfBatch(batch, record) ==
    IF HasColumn(batch, <<"invoice_date">>)
    THEN record.timestamp[1] \in {"iso", "NaT"}
    ELSE record.timestamp = <<"now">>

\* C24: whether or not the batch has an invoice_date column, detect_anomalies
\* after preprocess_data, in the real and in the fallback pipeline, never fails
\* because of that column, and every record it emits carries a timestamp: the
\* row's invoice date when the column is present, the current time otherwise.
C24_TimestampAlways ==
    /\ last_detect.outcome # "raised"
    /\ \A k \in DOMAIN anomalies : TimestampOfBatch(df, anomalies[k])
    /\ dummy_detect.outcome # "raised"
    /\ \A k \in DOMAIN dummy_anomalies : TimestampOfBatch(df, dummy_anomalies[k])

----------------------------------------------------------------------------
(* Claims about the processing jobs (checked under SpecJobs). *)

\* the status changes a job may make
StatusEdges ==
    { <<"queued", "processing">>, <<"processing", "completed">>, <<"processing", "failed">> }

\* the progress values in their order
ProgressEdges == { <<0, 20>>, <<20, 40>>, <<40, 70>>, <<70, 90>>, <<90, 100>> }

\* one step seen by the job with id j
JobMovesForward(j) ==
    /\ j \in DOMAIN job_storage'
    /\ \/ job_storage'[j].status = job_storage[j].status
       \/ <<job_storage[j].status, job_storage'[j].status>> \in StatusEdges
    /\ job_storage'[j].status # "failed" =>
          \/ job_storage'[j].progress = job_storage[j].progress
          \/ <<job_storage[j].progress, job_storage'[j].progress>> \in ProgressEdges
    /\ job_storage[j].status \in {"completed", "failed"} => job_storage'[j] = job_storage[j]

\* a get_job_status request reports what is stored, or 404, and alters no job
PollFaithful ==
    last_poll' # last_poll =>
        /\ job_storage' = job_storage
        /\ IF last_poll'.job_id \in DOMAIN job_storage
           THEN /\ last_poll'.code = 200
                /\ last_poll'.status = job_storage[last_poll'.job_id].status
                /\ last_poll'.progress = job_storage[last_poll'.job_id].progress
           ELSE last_poll'.code = 404

\* C25: a job's lifecycle only moves forward: its status goes queued ->
\* processing -> completed (or failed), its progress goes through 0, 20, 40,
\* 70, 90, 100 and never decreases unless the job fails, a completed job has
\* progress 100, a job never leaves completed or failed, and a poll reports
\* the stored status, an unknown job_id giving 404 and changing no job.
C25_Lifecycle ==
    [][ /\ \A j \in DOMAIN job_storage : JobMovesForward(j)
        /\ \A j \in DOMAIN job_storage' :
              /\ job_storage'[j].status = "completed" => job_storage'[j].progress = 100
              /\ j \notin DOMAIN job_storage =>
                    job_storage'[j].status = "queued" /\ job_storage'[j].progress = 0
        /\ PollFaithful ]_vars

\* one job completed and was polled as such, another failed
C25_Witness ==
    /\ Len(job_storage) = 2
    /\ job_storage[1].status = "completed"
    /\ job_storage[2].status = "failed"
    /\ last_poll.job_id = 1 /\ last_poll.status = "completed" /\ last_poll.progress = 100

\* the records of a list are those of distinct rows of the batch handed to
\* detect_anomalies, each under the row's position, in ascending position
RowsAscending(batch, records) ==
    /\ \A k \in DOMAIN records :
          /\ records[k].row_index \in 0 .. (batch.nrows - 1)
          /\ records[k].feature_values = RowDict(batch, records[k].row_index + 1)
    /\ \A k, l \in DOMAIN records : k < l => records[k].row_index < records[l].row_index

\* C26: a detect_anomalies call, real or fallback, on a batch of N rows returns
\* at most one record per row, each with a row_index in 0..N-1 that is the
\* row's position in the batch, and the records are in ascending row_index
\* order.
C26_RowOrder ==
    /\ RowsAscending(df_clean, anomalies)
    /\ RowsAscending(dummy_clean, dummy_anomalies)

============================================================================
